---- MODULE Spec2Model ----
(***************************************************************************)
(* State-machine model of the news pipeline of news_bot_patched.py:        *)
(* push_once -> fetch_category_news -> send_album_with_ad (ledger check,   *)
(* link resolution, media location with the OG budget, download_to_data,   *)
(* flush_batch, summary and advertisement), with the media cache           *)
(* (download_to_data, _find_existing_path, cleanup_data_dir) and the       *)
(* sent_articles ledger (already_sent, mark_sent).                         *)
(*                                                                         *)
(* Strings are sequences of tokens: a token stands for a run of            *)
(* characters, so concatenation, prefix and substring tests are computed   *)
(* token by token.  None and the empty string are both the empty sequence  *)
(* (both are falsy in the source's tests).                                 *)
(***************************************************************************)
EXTENDS Integers, Sequences, FiniteSets, TLC

(***************************************************************************)
(* Bounds of the model.                                                    *)
(***************************************************************************)
MaxEntries == 2
MaxPasses == 2
MaxBudget == 1
MaxCalls == 3

(***************************************************************************)
(* Program constants.                                                      *)
(***************************************************************************)
ALBUM_MAX == 10
MAX_ITEMS_PER_PUSH == 6
SecondsPerDay == 86400

\* MEDIA_RETENTION_DAYS is read from the environment when the module is
\* loaded; its default
RetentionDefault == 7

\* the clock, in seconds
VARIABLES MEDIA_RETENTION_DAYS, now

Categories == <<"sea", "finance", "war">>

ENABLE_OG_SCRAPE == TRUE
FOLLOW_REDIRECTS_FOR_MEDIA == TRUE
ALBUM_SUMMARY_BELOW == TRUE

None == <<>>

Min(a, b) == IF a < b THEN a ELSE b

Max(a, b) == IF a > b THEN a ELSE b

(***************************************************************************)
(* String helpers.                                                         *)
(***************************************************************************)
\* s.startswith(p)
StartsWith(s, p) == Len(p) <= Len(s) /\ SubSeq(s, 1, Len(p)) = p

\* p in s  (substring test)
Contains(s, p) ==
  \E i \in 1..(Len(s) - Len(p) + 1) : SubSeq(s, i, i + Len(p) - 1) = p

\* urlparse(url).netloc of a media URL <<label, ..., "/", path tokens>>
Netloc(url) ==
  IF \E i \in 1..Len(url) : url[i] = "/"
  THEN SubSeq(url, 1, (CHOOSE i \in 1..Len(url) :
                         url[i] = "/" /\ \A j \in 1..(i - 1) : url[j] # "/") - 1)
  ELSE url

PLACEHOLDER_DOMAINS ==
  { <<"encrypted-tbn0", "gstatic", "com">>, <<"tbn0", "gstatic", "com">>,
    <<"gstatic", "com">>, <<"news", "google", "com">>,
    <<"news", "googleusercontent", "com">>, <<"lh3", "googleusercontent", "com">>,
    <<"lh4", "googleusercontent", "com">>, <<"lh5", "googleusercontent", "com">>,
    <<"lh6", "googleusercontent", "com">>, <<"gnews", "google", "com">>,
    <<"googleusercontent", "com">> }

is_placeholder_image(url) ==
  \E d \in PLACEHOLDER_DOMAINS : Contains(Netloc(url), d)

\* "news.google." in u
IsGnews(u) == Contains(u, <<"news.google.">>)

\* a digest that is salted with the moment of the call
MakeIdSalted(t, l) == t \o <<"|">> \o l \o <<ToString(now)>>

\* hashlib.sha1(f"{t}|{l}") : the formatted string; sha1 is taken as
\* collision free, so the digest is identified with its input string.
make_id(t, l) == t \o <<"|">> \o l

(***************************************************************************)
(* Feed entries, after feedparser and extract_media_from_entry.            *)
(*   link            entry.link (the only candidate link)                  *)
(*   urlparam        result of extract_direct_from_gnews(link)             *)
(*   b64             result of decode_gnews_articles(link)                 *)
(*   summaryHref     first off-aggregator href of the summary              *)
(*   img, vid        result of extract_media_from_entry                    *)
(***************************************************************************)
GoodImg == <<"cdn", "pub", "com", "/", "a", ".jpg">>
ThumbImg == <<"lh3", "googleusercontent", "com", "/", "t", ".jpg">>
OgImg == <<"img", "pub", "com", "/", "og", ".jpg">>
OgThumb == <<"encrypted-tbn0", "gstatic", "com", "/", "og">>
Vid == <<"cdn", "pub", "com", "/", "v", ".mp4">>

PubLink == <<"pub.example/", "story">>
CanonLink == <<"pub.example/", "canonical">>

E1 == [title |-> <<"T1">>, link |-> <<"pub.example/", "a">>,
       urlparam |-> None, b64 |-> None, summaryHref |-> None,
       img |-> GoodImg, vid |-> None, dt |-> 2, source |-> <<"Pub">>]

E2 == [title |-> <<"T2">>, link |-> <<"news.google.", "|", "z">>,
       urlparam |-> None, b64 |-> None, summaryHref |-> None,
       img |-> ThumbImg, vid |-> None, dt |-> 1, source |-> None]

\* same formatted string as E2: "T2|news.google.|z"
E3 == [title |-> <<"T2", "|", "news.google.">>, link |-> <<"z">>,
       urlparam |-> None, b64 |-> None, summaryHref |-> None,
       img |-> None, vid |-> Vid, dt |-> 2, source |-> <<"Pub">>]

Entries == {E1, E2, E3}


(***************************************************************************)
(* Redirect decoding: publisher_url_from_entry.  live is what the live     *)
(* HTML inspection answers if it is reached (None: it found nothing).      *)
(***************************************************************************)
publisher_url_from_entry(e, live) ==
  IF ~IsGnews(e.link) THEN [url |-> e.link, net |-> FALSE]
  ELSE IF e.urlparam # None THEN [url |-> e.urlparam, net |-> FALSE]
  ELSE IF e.b64 # None THEN [url |-> e.b64, net |-> FALSE]
  ELSE IF e.summaryHref # None THEN [url |-> e.summaryHref, net |-> FALSE]
  ELSE IF live # None THEN [url |-> live, net |-> TRUE]
  ELSE [url |-> e.link, net |-> TRUE]

\* answers of extract_publisher_from_gnews_html: nothing, or a URL that
\* passes _valid_external_url
LiveResults == {None, PubLink}

\* a resolver that answers the address of an error page, not the url it
\* was given, when the request fails
ResolveResultsErrorPage(url) == {<<"pub.example/", "error">>, CanonLink}

\* answers of resolve_publisher_url(url): on any error the url itself,
\* otherwise the final (redirected / canonical) address
ResolveResults(url) == {url, CanonLink}

\* answers of fetch_og_image: nothing, a publisher image, a placeholder image
OgResults == {None, OgImg, OgThumb}

(***************************************************************************)
(* fetch_category_news: one item per feed entry, de-duplicated by          *)
(* (title, link), sorted newest first (stable), cut to MAX_ITEMS_PER_PUSH. *)
(* feed holds the entries that pass the title/link/cutoff filters.         *)
(***************************************************************************)
MakeItem(e, category, live) ==
  [title |-> e.title, link |-> e.link,
   publisher_link |-> publisher_url_from_entry(e, live).url,
   dt |-> e.dt, source |-> e.source, category |-> category,
   img |-> e.img, vid |-> e.vid,
   local_path |-> None, is_video |-> FALSE]

RECURSIVE DedupFrom(_, _)
DedupFrom(items, seen) ==
  IF items = <<>> THEN <<>>
  ELSE LET k == <<Head(items).title, Head(items).link>>
       IN IF k \in seen THEN DedupFrom(Tail(items), seen)
          ELSE <<Head(items)>> \o DedupFrom(Tail(items), seen \cup {k})

Dedup(items) == DedupFrom(items, {})

\* sorted(..., key=dt, reverse=True): stable, equal dt keep their order
RECURSIVE InsertByDt(_, _)
InsertByDt(x, sorted) ==
  IF sorted = <<>> THEN <<x>>
  ELSE IF Head(sorted).dt > x.dt
       THEN <<Head(sorted)>> \o InsertByDt(x, Tail(sorted))
       ELSE <<x>> \o sorted

\* a fetch that returns the entries in feed order
KeepFeedOrder(items) == items

RECURSIVE SortByDt(_)
SortByDt(items) ==
  IF items = <<>> THEN <<>>
  ELSE InsertByDt(Head(items), SortByDt(Tail(items)))

fetch_category_news(feed, category, lives) ==
  LET items == [i \in 1..Len(feed) |-> MakeItem(feed[i], category, lives[i])]
      ordered == SortByDt(Dedup(items))
  IN SubSeq(ordered, 1, Min(MAX_ITEMS_PER_PUSH, Len(ordered)))

\* feed positions whose decoding reaches the live HTML inspection
LiveCalls(feed) ==
  {i \in 1..Len(feed) : publisher_url_from_entry(feed[i], None).net}

(***************************************************************************)
(* Sent ledger: table sent_articles, primary key id.                       *)
(***************************************************************************)
LedgerIds(rows) == {r.id : r \in rows}

\* a ledger lookup that never finds the row
AlreadySentNever(rows, aid) == FALSE

already_sent(rows, aid) == aid \in LedgerIds(rows)

\* INSERT OR REPLACE: the later row takes the place of the first
MarkSentReplace(rows, aid, title, link, category, t) ==
  {r \in rows : r.id # aid} \cup
  {[id |-> aid, title |-> title, link |-> link,
    category |-> category, sent_at |-> t]}

\* INSERT OR IGNORE
mark_sent(rows, aid, title, link, category, t) ==
  IF aid \in LedgerIds(rows) THEN rows
  ELSE rows \cup {[id |-> aid, title |-> title, link |-> link,
                   category |-> category, sent_at |-> t]}

(***************************************************************************)
(* Media cache.  A file is [video, name, size, mtime, thumb]; video tells  *)
(* the folder (VIDEOS_DIR or IMAGES_DIR), thumb that the bytes came from   *)
(* a host of PLACEHOLDER_DOMAINS.                                          *)
(***************************************************************************)
ExtTokens == {".jpg", ".png", ".webp", ".gif", ".mp4", ".webm", ".mov", ".part"}
\* tokens whose first character is "." or "_"
DotTokens == ExtTokens

Folder(is_video) == IF is_video THEN "videos/" ELSE "images/"

PathOf(f) == <<Folder(f.video)>> \o f.name

_pick_ext_by_ct(ct, is_video) ==
  IF is_video
  THEN IF Contains(ct, <<"mp4">>) THEN ".mp4"
       ELSE IF Contains(ct, <<"webm">>) THEN ".webm"
       ELSE IF Contains(ct, <<"quicktime">>) \/ Contains(ct, <<"mov">>) THEN ".mov"
       ELSE ".mp4"
  ELSE IF Contains(ct, <<"jpeg">>) \/ Contains(ct, <<"jpg">>) THEN ".jpg"
       ELSE IF Contains(ct, <<"png">>) THEN ".png"
       ELSE IF Contains(ct, <<"webp">>) THEN ".webp"
       ELSE IF Contains(ct, <<"gif">>) THEN ".gif"
       ELSE ".jpg"

\* a lookup that goes by the fingerprint and not by the purpose
MatchesAnyPurpose(fs, key, is_video) ==
  {f \in fs : /\ f.video = is_video
              /\ StartsWith(f.name, SubSeq(key, 1, Len(key) - 1))}

\* the names of the folder that _find_existing_path accepts for key
Matches(fs, key, is_video) ==
  {f \in fs : /\ f.video = is_video
              /\ Len(f.name) > Len(key)
              /\ StartsWith(f.name, key)
              /\ f.name[Len(key) + 1] \in DotTokens}

\* a lookup that finds no cached file
ListingsNone(fs, key, is_video) == {{}}

\* _find_existing_path returns the first match in os.listdir order, which
\* the file system decides: any match can be the first.
Listings(fs, key, is_video) ==
  IF Matches(fs, key, is_video) = {} THEN {{}}
  ELSE {{f} : f \in Matches(fs, key, is_video)}

WithoutName(fs, is_video, name) ==
  {f \in fs : ~(f.video = is_video /\ f.name = name)}

\* download_to_data(url, key, is_video, size_limit); listed is the answer
\* of _find_existing_path ({} or {file}), resp the HTTP response
\* [ok, ct, size], t the clock.  Result: the files, the returned path and
\* whether a network request was issued.
download_to_data(fs, url, key, is_video, size_limit, listed, resp, t) ==
  LET tmp == key \o <<".part">>
      ext2 == _pick_ext_by_ct(resp.ct, is_video)
      final == key \o <<ext2>>
  IN IF listed # {} /\ (CHOOSE f \in listed : TRUE).size > 0
     THEN [files |-> fs, path |-> PathOf(CHOOSE f \in listed : TRUE),
           net |-> FALSE, ext |-> None]
     ELSE IF ~resp.ok
     THEN [files |-> WithoutName(fs, is_video, tmp), path |-> None,
           net |-> TRUE, ext |-> None]
     ELSE IF Contains(resp.ct, <<"text/html">>)
     THEN [files |-> fs, path |-> None, net |-> TRUE, ext |-> None]
     ELSE IF size_limit # 0 /\ resp.size > size_limit
     THEN [files |-> WithoutName(fs, is_video, tmp), path |-> None,
           net |-> TRUE, ext |-> None]
     ELSE [files |-> WithoutName(WithoutName(fs, is_video, tmp), is_video, final)
                       \cup {[video |-> is_video, name |-> final,
                              size |-> resp.size, mtime |-> t,
                              thumb |-> is_placeholder_image(url)]},
           path |-> <<Folder(is_video)>> \o final,
           net |-> TRUE, ext |-> <<ext2>>]

\* every outcome of one download_to_data call over the listing orders and
\* the responses resps
Downloads(fs, url, key, is_video, size_limit, resps, t) ==
  {download_to_data(fs, url, key, is_video, size_limit, l, r, t) :
     l \in Listings(fs, key, is_video), r \in resps}

\* a sweep without the test of the retention setting
CleanupUnguarded(fs, t) ==
  {f \in fs : ~(f.mtime < t - MEDIA_RETENTION_DAYS * SecondsPerDay)}

\* cleanup_data_dir at clock t
cleanup_data_dir(fs, t) ==
  IF MEDIA_RETENTION_DAYS <= 0 THEN fs
  ELSE {f \in fs : ~(f.mtime < t - MEDIA_RETENTION_DAYS * SecondsPerDay)}


(***************************************************************************)
(* State.                                                                  *)
(***************************************************************************)
VARIABLES
  MEDIA_ONLY,              \* configuration (environment), fixed at start
  MAX_OG_FETCH_PER_CYCLE,
  ledger,                  \* rows of sent_articles
  files,                   \* files of IMAGES_DIR and VIDEOS_DIR
  pc,                      \* position of the process
  passNo,                  \* push_once passes finished
  catIdx,                  \* index of the category in push_once's loop
  items,                   \* list returned by fetch_category_news
  idx,                     \* position of send_album_with_ad's item loop
  chosen,                  \* send_album_with_ad's chosen list
  rest,                    \* chosen items not yet handed to flush_batch
  sent_any,
  og_budget,               \* og_budget_ref[0]
  msgs,                    \* send calls of the current category, in order
  sentCount,               \* per fingerprint: successful send calls holding it
  late,                    \* kinds of network calls made for marked entries
  og_fetches,              \* fetch_og_image calls of the current pass,
                           \* counted up to MAX_OG_FETCH_PER_CYCLE + 1
  aborted,                 \* the last pass ended by an exception
  failedSingle,            \* a single-item send failed in the current pass
  fed,                     \* entries the feeds have delivered in the run
  dl,                      \* the last two direct download_to_data calls
  ncalls,                  \* direct calls of the media cache so far
  dec,                     \* a publisher_url_from_entry call on its own:
                           \* entry, position in the cascade, result
  loop,                    \* run_realtime / run_digest: position and stop flag
  conc,                    \* two download_to_data calls running side by side
  nb                       \* news_bot.py: push_news_once and its posted_news

\* no publisher_url_from_entry call is followed on its own
NoDecode == [stage |-> 0]

\* a part of the program that a specification does not run
NotRunning == [at |-> "off"]

config == <<MEDIA_ONLY, MAX_OG_FETCH_PER_CYCLE, MEDIA_RETENTION_DAYS>>
locals == <<items, idx, chosen, rest, sent_any>>
aside == <<loop, conc, nb>>
vars == <<MEDIA_ONLY, MAX_OG_FETCH_PER_CYCLE, MEDIA_RETENTION_DAYS, ledger, files, now, pc, passNo,
          catIdx, items, idx, chosen, rest, sent_any, og_budget, msgs,
          sentCount, late, og_fetches, aborted, failedSingle, fed, dl, ncalls, dec, aside>>

IMAGE_MAX_BYTES == 0
VIDEO_MAX_BYTES == 0

Fingerprints == {make_id(e.title, e.link) : e \in Entries}

\* the feeds of at most n entries
Feeds(n) == UNION {[1..k -> Entries] : k \in 0..n}

\* clock advance before a pass: a moment, or more than the retention (with
\* an empty cache the two differ in nothing but the clock's value)
TimeSteps(fs) ==
  IF fs = {} THEN {1} ELSE {1, MEDIA_RETENTION_DAYS * SecondsPerDay + 1}

\* HTTP responses to a media download during a pass
PassResponses ==
  { [ok |-> TRUE, ct |-> <<"image/", "jpeg">>, size |-> 1],
    [ok |-> TRUE, ct |-> <<"text/html">>, size |-> 1],
    [ok |-> FALSE, ct |-> <<>>, size |-> 0] }

NoDownload(fs) == [files |-> fs, path |-> None, net |-> FALSE, ext |-> None]

Init ==
  /\ MEDIA_ONLY \in BOOLEAN
  /\ MAX_OG_FETCH_PER_CYCLE \in 0..MaxBudget
  /\ MEDIA_RETENTION_DAYS = RetentionDefault
  /\ ledger = {}
  /\ files = {}
  /\ now = 0
  /\ pc = "idle"
  /\ passNo = 0
  /\ catIdx = 1
  /\ items = <<>>
  /\ idx = 1
  /\ chosen = <<>>
  /\ rest = <<>>
  /\ sent_any = FALSE
  /\ og_budget = 0
  /\ msgs = <<>>
  /\ sentCount = [f \in Fingerprints |-> 0]
  /\ late = {}
  /\ og_fetches = 0
  /\ aborted = FALSE
  /\ failedSingle = FALSE
  /\ fed = 0
  /\ dl = <<>>
  /\ ncalls = 0
  /\ dec = NoDecode
  /\ loop = NotRunning
  /\ conc = NotRunning
  /\ nb = NotRunning

(***************************************************************************)
(* push_once: sweep the cache, set the budget, start the category loop.    *)
(***************************************************************************)
PushOnceStart ==
  /\ pc = "idle"
  /\ passNo < MaxPasses
  /\ \E d \in TimeSteps(files) :
       /\ now' = now + d
       /\ files' = cleanup_data_dir(files, now + d)
  /\ og_budget' = MAX_OG_FETCH_PER_CYCLE
  /\ catIdx' = 1
  /\ pc' = "fetch"
  /\ og_fetches' = 0
  /\ aborted' = FALSE
  /\ failedSingle' = FALSE
  /\ msgs' = <<>>
  /\ UNCHANGED <<config, locals, ledger, passNo, sentCount, late, fed, dl, ncalls, dec, aside>>

\* the locals of send_album_with_ad are gone when it returns
LocalsGone ==
  /\ items' = <<>>
  /\ idx' = 1
  /\ chosen' = <<>>
  /\ rest' = <<>>
  /\ sent_any' = FALSE

\* the category loop of push_once moves on, or the pass returns; catIdx
\* past the last category says that the loop ran to its end
CategoryReturns ==
  /\ catIdx' = catIdx + 1
  /\ IF catIdx < Len(Categories)
     THEN pc' = "fetch" /\ passNo' = passNo
     ELSE pc' = "idle" /\ passNo' = passNo + 1

\* an exception leaves push_once in the middle of the category catIdx;
\* run_realtime / run_digest log it
PassRaises ==
  /\ pc' = "idle"
  /\ catIdx' = catIdx
  /\ passNo' = passNo + 1
  /\ aborted' = TRUE

(***************************************************************************)
(* fetch_category_news(cat) and the "if items" test of push_once.          *)
(***************************************************************************)
FetchCategory ==
  /\ pc = "fetch"
  /\ \E feed \in Feeds(MaxEntries - fed) :
     \E lives \in [1..Len(feed) -> LiveResults] :
       /\ \A i \in 1..Len(feed) : i \notin LiveCalls(feed) => lives[i] = None
       /\ items' = fetch_category_news(feed, Categories[catIdx], lives)
       /\ late' = late \cup
            (IF \E i \in LiveCalls(feed) :
                  already_sent(ledger, make_id(feed[i].title, feed[i].link))
             THEN {"resolve"} ELSE {})
       /\ fed' = fed + Len(feed)
  /\ idx' = 1
  /\ chosen' = <<>>
  /\ rest' = <<>>
  /\ sent_any' = FALSE
  /\ msgs' = <<>>
  /\ IF items' = <<>>
     THEN CategoryReturns
     ELSE pc' = "items" /\ UNCHANGED <<catIdx, passNo>>
  /\ UNCHANGED <<config, ledger, files, now, og_budget, sentCount, og_fetches,
                 aborted, failedSingle, dl, ncalls, dec, aside>>

(***************************************************************************)
(* send_album_with_ad, item loop (one iteration per step).                 *)
(***************************************************************************)
\* step 1: the publisher link; a link still on the aggregator is inspected
\* live, then followed (resolve_publisher_url)
Finals(it) ==
  LET l0 == IF it.publisher_link # None THEN it.publisher_link ELSE it.link
  IN IF IsGnews(l0)
     THEN {[link |-> PubLink, net |-> TRUE]} \cup
          {[link |-> r, net |-> TRUE] :
             r \in (IF FOLLOW_REDIRECTS_FOR_MEDIA THEN ResolveResults(l0) ELSE {l0})}
     ELSE {[link |-> l0, net |-> FALSE]}

\* the image left after the placeholder test
NativeImg(it) ==
  IF it.img # None /\ is_placeholder_image(it.img) THEN None ELSE it.img

\* a scrape guard that does not look at the budget
FirstScrapeUnbudgeted(it, link, budget) ==
  it.vid = None /\ ENABLE_OG_SCRAPE /\ link # None

\* the guard of the budgeted scrape
FirstScrape(it, link, budget) ==
  it.vid = None /\ ENABLE_OG_SCRAPE /\ link # None /\ budget > 0

\* og_budget_ref[0] -= 1
BudgetAfterScrape(budget) == budget - 1

\* the guard of the scrape made when nothing could be cached
SecondScrape(path, link, budget) ==
  path = None /\ ENABLE_OG_SCRAPE /\ link # None

\* an iteration that appends the item whether or not a file was stored
ItemStepKeepsAll(keep, it2, fs2, b2, nscr, marked, calls) ==
  /\ chosen' = Append(chosen, it2)
  /\ files' = fs2
  /\ og_budget' = b2
  /\ og_fetches' = Min(og_fetches + nscr, MAX_OG_FETCH_PER_CYCLE + 1)
  /\ late' = late \cup (IF marked THEN calls ELSE {})
  /\ idx' = idx + 1
  /\ UNCHANGED <<config, ledger, now, pc, passNo, catIdx, items, rest,
                 sent_any, msgs, sentCount, aborted, failedSingle, fed, dl, ncalls, dec, aside>>

\* the effect of one iteration on the state
ItemStep(keep, it2, fs2, b2, nscr, marked, calls) ==
  /\ chosen' = IF keep THEN Append(chosen, it2) ELSE chosen
  /\ files' = fs2
  /\ og_budget' = b2
  /\ og_fetches' = Min(og_fetches + nscr, MAX_OG_FETCH_PER_CYCLE + 1)
  /\ late' = late \cup (IF marked THEN calls ELSE {})
  /\ idx' = idx + 1
  /\ UNCHANGED <<config, ledger, now, pc, passNo, catIdx, items, rest,
                 sent_any, msgs, sentCount, aborted, failedSingle, fed, dl, ncalls, dec, aside>>

\* the iteration past the ledger check
ResolveLocateCache(it, aid, marked) ==
  \E fin \in Finals(it) :
  \E og1 \in (IF FirstScrape(it, fin.link, og_budget) THEN OgResults ELSE {None}) :
    LET scr1 == FirstScrape(it, fin.link, og_budget)
        img == IF og1 # None THEN og1 ELSE NativeImg(it)
        used_og == og1 # None
        b1 == IF scr1 THEN BudgetAfterScrape(og_budget) ELSE og_budget
        n1 == IF scr1 THEN 1 ELSE 0
        it1 == [it EXCEPT !.publisher_link = fin.link, !.img = img]
        c1 == (IF fin.net THEN {"resolve"} ELSE {}) \cup
              (IF scr1 THEN {"scrape"} ELSE {})
    IN IF MEDIA_ONLY /\ img = None /\ it.vid = None
       THEN ItemStep(FALSE, it1, files, b1, n1, marked, c1)
       ELSE
         \E d1 \in (IF it.vid # None
                    THEN Downloads(files, it.vid, aid \o <<"-vid">>, TRUE,
                                   VIDEO_MAX_BYTES, PassResponses, now)
                    ELSE {NoDownload(files)}) :
         \E d2 \in (IF d1.path = None /\ img # None
                    THEN Downloads(d1.files, img,
                                   aid \o (IF used_og THEN <<"-og">> ELSE <<"-img">>),
                                   FALSE, IMAGE_MAX_BYTES, PassResponses, now)
                    ELSE {d1}) :
         \E og2 \in (IF SecondScrape(d2.path, fin.link, b1)
                     THEN OgResults ELSE {None}) :
         \E d3 \in (IF og2 # None
                    THEN Downloads(d2.files, og2, aid \o <<"-og">>, FALSE,
                                   IMAGE_MAX_BYTES, PassResponses, now)
                    ELSE {d2}) :
           LET n2 == IF SecondScrape(d2.path, fin.link, b1) THEN 1 ELSE 0
               c2 == c1 \cup (IF n2 = 1 THEN {"scrape"} ELSE {})
                        \cup (IF d1.net \/ d2.net \/ d3.net THEN {"download"} ELSE {})
               it2 == [it1 EXCEPT !.local_path = d3.path,
                                  !.is_video = StartsWith(d3.path, <<"videos/">>)]
           IN ItemStep(d3.path # None, it2, d3.files, b1, n1 + n2, marked, c2)

\* an item loop that also skips every item that has a file in the cache
ProcessItemSkipsCached ==
  /\ pc = "items"
  /\ idx <= Len(items)
  /\ LET it == items[idx]
         aid == make_id(it.title, it.link)
     IN IF already_sent(ledger, aid) \/ \E f \in files : StartsWith(f.name, aid)
        THEN ItemStep(FALSE, it, files, og_budget, 0, aid \in LedgerIds(ledger), {})
        ELSE ResolveLocateCache(it, aid, aid \in LedgerIds(ledger))

ProcessItem ==
  /\ pc = "items"
  /\ idx <= Len(items)
  /\ LET it == items[idx]
         aid == make_id(it.title, it.link)
     IN IF already_sent(ledger, aid)
        THEN ItemStep(FALSE, it, files, og_budget, 0, aid \in LedgerIds(ledger), {})
        ELSE ResolveLocateCache(it, aid, aid \in LedgerIds(ledger))

\* a sender that posts the category header before it looks at chosen
AfterItemsHeaderFirst ==
  /\ pc = "items"
  /\ idx > Len(items)
  /\ msgs' = <<[kind |-> "header", ids |-> <<>>, links |-> <<>>,
                result |-> "sent"]>>
  /\ IF chosen = <<>>
     THEN /\ CategoryReturns
          /\ LocalsGone
     ELSE /\ rest' = chosen
          /\ pc' = "flush"
          /\ UNCHANGED <<catIdx, passNo, items, idx, chosen, sent_any>>
  /\ UNCHANGED <<config, ledger, files, now, og_budget, sentCount, late,
                 og_fetches, aborted, failedSingle, fed, dl, ncalls, dec, aside>>

\* after the loop: nothing chosen, return; otherwise the category header
AfterItems ==
  /\ pc = "items"
  /\ idx > Len(items)
  /\ IF chosen = <<>>
     THEN /\ CategoryReturns
          /\ LocalsGone
          /\ UNCHANGED msgs
     ELSE /\ msgs' = <<[kind |-> "header", ids |-> <<>>, links |-> <<>>,
                        result |-> "sent"]>>
          /\ rest' = chosen
          /\ pc' = "flush"
          /\ UNCHANGED <<catIdx, passNo, items, idx, chosen, sent_any>>
  /\ UNCHANGED <<config, ledger, files, now, og_budget, sentCount, late,
                 og_fetches, aborted, failedSingle, fed, dl, ncalls, dec, aside>>

(***************************************************************************)
(* send_album_with_ad, batching: flush_batch on consecutive groups of at   *)
(* most ALBUM_MAX chosen items.                                            *)
(***************************************************************************)
NextBatch(list) == SubSeq(list, 1, Min(ALBUM_MAX, Len(list)))

AfterBatch(list) == SubSeq(list, Min(ALBUM_MAX, Len(list)) + 1, Len(list))

\* the groups handed to flush_batch by the loop over chosen
RECURSIVE Groups(_)
Groups(list) ==
  IF list = <<>> THEN <<>>
  ELSE <<NextBatch(list)>> \o Groups(AfterBatch(list))

IdsOf(batch) == [i \in 1..Len(batch) |-> make_id(batch[i].title, batch[i].link)]

LinksOf(batch) ==
  [i \in 1..Len(batch) |->
     IF batch[i].publisher_link # None THEN batch[i].publisher_link
     ELSE batch[i].link]

Range(seq) == {seq[i] : i \in 1..Len(seq)}

\* answers of a media send call: HTTP 200, another status, or an exception
\* of requests.post (the senders have try/finally and no except)
SendResults == {"ok", "fail", "raise"}

\* marking that stops after the first member of the group
MarkHead(rows, batch, category, t) ==
  IF batch = <<>> THEN rows
  ELSE mark_sent(rows, make_id(Head(batch).title, Head(batch).link),
                 Head(batch).title, Head(batch).link, category, t)

RECURSIVE MarkAll(_, _, _, _)
MarkAll(rows, batch, category, t) ==
  IF batch = <<>> THEN rows
  ELSE MarkAll(mark_sent(rows, make_id(Head(batch).title, Head(batch).link),
                         Head(batch).title, Head(batch).link, category, t),
               Tail(batch), category, t)

\* marking that does not look at the answer of the send call
LedgerAfterSendAlways(rows, batch, result, category, t) ==
  MarkAll(rows, batch, category, t)

\* the ledger after flush_batch(batch) whose send call answered result
LedgerAfterSend(rows, batch, result, category, t) ==
  IF result = "ok" THEN MarkAll(rows, batch, category, t) ELSE rows

MediaKind(batch) ==
  IF Len(batch) = 1
  THEN (IF batch[1].is_video THEN "video" ELSE "photo")
  ELSE "group"

FlushBatch ==
  /\ pc = "flush"
  /\ rest # <<>>
  /\ LET batch == NextBatch(rest)
         ids == IdsOf(batch)
     IN \E result \in SendResults :
          /\ msgs' = Append(msgs, [kind |-> MediaKind(batch), ids |-> ids,
                                   links |-> LinksOf(batch), result |-> result])
          /\ ledger' = LedgerAfterSend(ledger, batch, result, Categories[catIdx], now)
          /\ sentCount' = [f \in Fingerprints |->
                             IF result = "ok" /\ f \in Range(ids)
                             THEN sentCount[f] + 1 ELSE sentCount[f]]
          /\ failedSingle' = (failedSingle \/ (Len(batch) = 1 /\ result # "ok"))
          /\ late' = late \cup
               (IF \E f \in Range(ids) : already_sent(ledger, f) THEN {"send"} ELSE {})
          /\ IF result = "raise"
             THEN PassRaises /\ LocalsGone
             ELSE /\ pc' = IF AfterBatch(rest) = <<>> THEN "summary" ELSE "flush"
                  /\ rest' = AfterBatch(rest)
                  /\ sent_any' = (sent_any \/ result = "ok")
                  /\ UNCHANGED <<catIdx, passNo, aborted, items, idx, chosen>>
  /\ UNCHANGED <<config, files, now, og_budget, og_fetches, fed, dl, ncalls, dec, aside>>

\* a summary of the first group only
SummaryOfFirstGroup(list) ==
  [kind |-> "summary", ids |-> IdsOf(NextBatch(list)),
   links |-> LinksOf(NextBatch(list)), result |-> "sent"]

\* the summary message: one numbered line per item of the list, with the
\* item's publisher link (or its link)
build_album_summary(list) ==
  [kind |-> "summary", ids |-> IdsOf(list), links |-> LinksOf(list),
   result |-> "sent"]

\* a sender whose advertisement does not wait for a delivered item
SummaryAndAdUnconditional ==
  /\ pc = "summary"
  /\ msgs' = msgs
       \o (IF sent_any /\ ALBUM_SUMMARY_BELOW
           THEN <<build_album_summary(chosen)>> ELSE <<>>)
       \o <<[kind |-> "ad", ids |-> <<>>, links |-> <<>>, result |-> "sent"]>>
  /\ CategoryReturns
  /\ LocalsGone
  /\ UNCHANGED <<config, ledger, files, now, og_budget, sentCount, late,
                 og_fetches, aborted, failedSingle, fed, dl, ncalls, dec, aside>>

\* summary list and advertisement; adOn: ad_enabled(conn) and a non-blank
\* advertisement text are stored for the category
SummaryAndAd ==
  /\ pc = "summary"
  /\ \E adOn \in BOOLEAN :
       msgs' = msgs
         \o (IF sent_any /\ ALBUM_SUMMARY_BELOW
             THEN <<build_album_summary(chosen)>>
             ELSE <<>>)
         \o (IF sent_any /\ adOn
             THEN <<[kind |-> "ad", ids |-> <<>>, links |-> <<>>, result |-> "sent"]>>
             ELSE <<>>)
  /\ CategoryReturns
  /\ LocalsGone
  /\ UNCHANGED <<config, ledger, files, now, og_budget, sentCount, late,
                 og_fetches, aborted, failedSingle, fed, dl, ncalls, dec, aside>>

Next ==
  \/ PushOnceStart
  \/ FetchCategory
  \/ ProcessItem
  \/ AfterItems
  \/ FlushBatch
  \/ SummaryAndAd

Spec == Init /\ [][Next]_vars

TypeOK ==
  /\ pc \in {"idle", "fetch", "items", "flush", "summary"}
  /\ passNo \in 0..MaxPasses
  /\ catIdx \in 1..(Len(Categories) + 1)
  /\ og_budget \in Int
  /\ LedgerIds(ledger) \subseteq Fingerprints


(***************************************************************************)
(* The media cache on its own: download_to_data and cleanup_data_dir       *)
(* called in any order with any arguments and responses.                   *)
(***************************************************************************)
CacheKeys == { make_id(E1.title, E1.link) \o <<"-img">>,
               make_id(E1.title, E1.link) \o <<"-og">> }

CacheUrls == {GoodImg, Vid}

ContentTypes == { <<"image/", "jpeg">>, <<"image/", "png">>,
                  <<"video/", "mp4">>, <<"text/html">> }

\* HTTP responses: an error (status, connection, broken stream), or a body
\* of size bytes with a declared content type
Responses ==
  {[ok |-> FALSE, ct |-> <<>>, size |-> 0]} \cup
  {[ok |-> TRUE, ct |-> c, size |-> n] : c \in ContentTypes, n \in {0, 2}}

SizeLimits == {0, 1}

\* clock advance before a sweep
SweepSteps == {1, MEDIA_RETENTION_DAYS * SecondsPerDay + 1}

\* the last token of the URL path (its extension, if it has one)
UrlExt(url) == url[Len(url)]

InitCache ==
  /\ MEDIA_ONLY = TRUE
  /\ MAX_OG_FETCH_PER_CYCLE = 0
  /\ MEDIA_RETENTION_DAYS = RetentionDefault
  /\ ledger = {}
  /\ files = {}
  /\ now = 0
  /\ pc = "cache"
  /\ passNo = 0
  /\ catIdx = 1
  /\ items = <<>>
  /\ idx = 1
  /\ chosen = <<>>
  /\ rest = <<>>
  /\ sent_any = FALSE
  /\ og_budget = 0
  /\ msgs = <<>>
  /\ sentCount = [f \in Fingerprints |-> 0]
  /\ late = {}
  /\ og_fetches = 0
  /\ aborted = FALSE
  /\ failedSingle = FALSE
  /\ fed = 0
  /\ dl = <<>>
  /\ ncalls = 0
  /\ dec = NoDecode
  /\ loop = NotRunning
  /\ conc = NotRunning
  /\ nb = NotRunning

pipeline == <<config, locals, ledger, pc, passNo, catIdx, og_budget, msgs,
              sentCount, late, og_fetches, aborted, failedSingle, fed, dec, aside>>

\* keep the last two calls; of the earlier one, what it was asked and what
\* it answered
Remember(log, call) ==
  IF log = <<>> THEN <<call>>
  ELSE <<[log[Len(log)] EXCEPT !.urlExt = None, !.ct = None, !.seen = {}], call>>

DownloadCall ==
  /\ pc = "cache"
  /\ ncalls < MaxCalls
  /\ \E url \in CacheUrls, key \in CacheKeys, is_video \in BOOLEAN,
        size_limit \in SizeLimits, resp \in Responses :
     \E listed \in Listings(files, key, is_video) :
       LET r == download_to_data(files, url, key, is_video, size_limit,
                                 listed, resp, now)
       IN /\ files' = r.files
          /\ dl' = Remember(dl, [key |-> key, video |-> is_video,
                                 urlExt |-> <<UrlExt(url)>>,
                                 ct |-> IF r.path # None /\ r.net THEN resp.ct ELSE None,
                                 seen |-> Matches(files, key, is_video),
                                 net |-> r.net, path |-> r.path])
  /\ ncalls' = ncalls + 1
  /\ UNCHANGED <<pipeline, now>>

SweepCall ==
  /\ pc = "cache"
  /\ ncalls < MaxCalls
  /\ \E d \in SweepSteps :
       /\ now' = now + d
       /\ files' = cleanup_data_dir(files, now + d)
  /\ ncalls' = ncalls + 1
  /\ UNCHANGED <<pipeline, dl>>

NextCache ==
  \/ DownloadCall
  \/ SweepCall

SpecCache == InitCache /\ [][NextCache]_vars


(***************************************************************************)
(* The retention sweep on its own: files are stored at the clock's value   *)
(* and cleanup_data_dir runs at ages around the retention window, under    *)
(* each kind of retention setting.                                         *)
(***************************************************************************)
MaxSweepCalls == 5

\* settings of MEDIA_RETENTION_DAYS: negative, zero, positive
RetentionChoices == {-1, 0, 1}

\* seconds between two sweeps: one, and one less than a day
AgeSteps == {1, SecondsPerDay - 1}

InitSweep ==
  /\ MEDIA_ONLY = TRUE
  /\ MAX_OG_FETCH_PER_CYCLE = 0
  /\ MEDIA_RETENTION_DAYS \in RetentionChoices
  /\ ledger = {}
  /\ files = {}
  /\ now = 0
  /\ pc = "sweep"
  /\ passNo = 0
  /\ catIdx = 1
  /\ items = <<>>
  /\ idx = 1
  /\ chosen = <<>>
  /\ rest = <<>>
  /\ sent_any = FALSE
  /\ og_budget = 0
  /\ msgs = <<>>
  /\ sentCount = [f \in Fingerprints |-> 0]
  /\ late = {}
  /\ og_fetches = 0
  /\ aborted = FALSE
  /\ failedSingle = FALSE
  /\ fed = 0
  /\ dl = <<>>
  /\ ncalls = 0
  /\ dec = NoDecode
  /\ loop = NotRunning
  /\ conc = NotRunning
  /\ nb = NotRunning

\* download_to_data stores an image or a video at the clock's value
StoreFile ==
  /\ pc = "sweep"
  /\ ncalls < MaxSweepCalls
  /\ \E key \in CacheKeys, is_video \in BOOLEAN :
     \E listed \in Listings(files, key, is_video) :
       files' = download_to_data(files, IF is_video THEN Vid ELSE GoodImg,
                                 key, is_video, 0, listed,
                                 [ok |-> TRUE, ct |-> <<"image/", "jpeg">>, size |-> 2],
                                 now).files
  /\ ncalls' = ncalls + 1
  /\ UNCHANGED <<pipeline, now, dl>>

\* time passes and cleanup_data_dir runs; dl keeps what the sweep found
SweepAtAge ==
  /\ pc = "sweep"
  /\ ncalls < MaxSweepCalls
  /\ \E d \in AgeSteps :
       /\ now' = now + d
       /\ files' = cleanup_data_dir(files, now + d)
  /\ dl' = <<[before |-> files]>>
  /\ ncalls' = ncalls + 1
  /\ UNCHANGED pipeline

NextSweep ==
  \/ StoreFile
  \/ SweepAtAge

SpecSweep == InitSweep /\ [][NextSweep]_vars


(***************************************************************************)
(* publisher_url_from_entry on its own, one step per strategy (per loop of *)
(* the function) over entries with one or more candidate links.            *)
(*   cands        entry.link followed by the hrefs of entry.links; of each *)
(*                the link, what extract_direct_from_gnews finds in it and *)
(*                what decode_gnews_articles finds in it                   *)
(*   summaryHref  first off-aggregator http href of the summary            *)
(***************************************************************************)
MaxCandidates == 2

DirectLink == <<"pub.example/", "d">>
GnewsLink == <<"news.google.", "articles/", "x">>
UrlParamLink == <<"pub.example/", "u">>
B64Link == <<"pub.example/", "b">>
SummaryLink == <<"pub.example/", "s">>

\* decode_gnews_articles answers None for a link off the aggregator
Candidates ==
  {[link |-> GnewsLink, urlparam |-> u, b64 |-> b] :
     u \in {None, UrlParamLink}, b \in {None, B64Link}} \cup
  {[link |-> DirectLink, urlparam |-> u, b64 |-> None] :
     u \in {None, UrlParamLink}}

DecodeEntries ==
  {[cands |-> c, summaryHref |-> h] :
     c \in UNION {[1..k -> Candidates] : k \in 1..MaxCandidates},
     h \in {None, SummaryLink}}

\* a strategy that scans the base64 token before anything else
StrategiesB64First == <<"b64", "direct", "urlparam", "summary", "live">>

\* the loops of publisher_url_from_entry, in the order of the code
Strategies == <<"direct", "urlparam", "b64", "summary", "live">>

\* "for u in candidates: r = ...; if r: return r"
FirstSome(rs) ==
  IF \E i \in 1..Len(rs) : rs[i] # None
  THEN rs[CHOOSE i \in 1..Len(rs) :
            rs[i] # None /\ \A j \in 1..(i - 1) : rs[j] = None]
  ELSE None

\* what one strategy returns for the entry e (None: nothing); lives are
\* the answers of extract_publisher_from_gnews_html per candidate
Attempt(name, e, lives) ==
  LET c == e.cands
      n == Len(e.cands)
  IN CASE name = "direct" ->
            FirstSome([i \in 1..n |-> IF IsGnews(c[i].link) THEN None ELSE c[i].link])
       [] name = "urlparam" -> FirstSome([i \in 1..n |-> c[i].urlparam])
       [] name = "b64" -> FirstSome([i \in 1..n |-> c[i].b64])
       [] name = "summary" -> e.summaryHref
       [] name = "live" ->
            FirstSome([i \in 1..n |-> IF IsGnews(c[i].link) THEN lives[i] ELSE None])

Returned == Len(Strategies) + 1

InitDecode ==
  /\ MEDIA_ONLY = TRUE
  /\ MAX_OG_FETCH_PER_CYCLE = 0
  /\ MEDIA_RETENTION_DAYS = RetentionDefault
  /\ ledger = {}
  /\ files = {}
  /\ now = 0
  /\ pc = "decode"
  /\ passNo = 0
  /\ catIdx = 1
  /\ items = <<>>
  /\ idx = 1
  /\ chosen = <<>>
  /\ rest = <<>>
  /\ sent_any = FALSE
  /\ og_budget = 0
  /\ msgs = <<>>
  /\ sentCount = [f \in Fingerprints |-> 0]
  /\ late = {}
  /\ og_fetches = 0
  /\ aborted = FALSE
  /\ failedSingle = FALSE
  /\ fed = 0
  /\ dl = <<>>
  /\ ncalls = 0
  /\ \E e \in DecodeEntries :
       dec = [stage |-> 1, e |-> e, ran |-> <<>>, url |-> None, net |-> FALSE]
  /\ loop = NotRunning
  /\ conc = NotRunning
  /\ nb = NotRunning

\* one loop of the function: return its result, or go on to the next loop;
\* after the last loop the fallback candidates[0]
DecodeStep ==
  /\ pc = "decode"
  /\ dec.stage \in 1..Len(Strategies)
  /\ \E lives \in [1..Len(dec.e.cands) -> LiveResults] :
       LET name == Strategies[dec.stage]
           r == Attempt(name, dec.e, lives)
           last == dec.stage = Len(Strategies)
       IN /\ name # "live" => \A i \in 1..Len(lives) : lives[i] = None
          /\ dec' = [dec EXCEPT
                       !.ran = Append(@, name),
                       !.net = @ \/ (name = "live" /\
                                     \E i \in 1..Len(dec.e.cands) :
                                        IsGnews(dec.e.cands[i].link)),
                       !.url = IF r # None THEN r
                               ELSE IF last THEN dec.e.cands[1].link ELSE None,
                       !.stage = IF r # None \/ last THEN Returned ELSE @ + 1]
  /\ UNCHANGED <<config, locals, ledger, files, now, pc, passNo, catIdx,
                 og_budget, msgs, sentCount, late, og_fetches, aborted,
                 failedSingle, fed, dl, ncalls, aside>>

NextDecode == DecodeStep

SpecDecode == InitDecode /\ [][NextDecode]_vars


(***************************************************************************)
(* The sending half of send_album_with_ad on its own (header, flush_batch  *)
(* per group, summary, advertisement), entered with any chosen list of up  *)
(* to MaxChosen items, as MAX_ITEMS_PER_PUSH above ALBUM_MAX allows.       *)
(***************************************************************************)
MaxChosen == 21

\* the k-th chosen item: entries differ in title and link (the de-duplication
\* of fetch_category_news), every item has its cached file
ChosenItem(k, is_video) ==
  [title |-> <<"T", ToString(k)>>, link |-> <<"pub.example/", ToString(k)>>,
   publisher_link |-> <<"pub.example/", ToString(k)>>,
   dt |-> 0, source |-> None, category |-> Categories[1],
   img |-> IF is_video THEN None ELSE GoodImg,
   vid |-> IF is_video THEN Vid ELSE None,
   local_path |-> <<Folder(is_video), "T", ToString(k)>>,
   is_video |-> is_video]

ChosenLists ==
  {[k \in 1..n |-> ChosenItem(k, v)] : n \in 0..MaxChosen, v \in BOOLEAN}

InitSend ==
  /\ MEDIA_ONLY = TRUE
  /\ MAX_OG_FETCH_PER_CYCLE = 0
  /\ MEDIA_RETENTION_DAYS = RetentionDefault
  /\ ledger = {}
  /\ files = {}
  /\ now = 0
  /\ pc = "items"
  /\ passNo = 0
  /\ catIdx = 1
  /\ items = <<>>
  /\ idx = 1
  /\ chosen \in ChosenLists
  /\ rest = <<>>
  /\ sent_any = FALSE
  /\ og_budget = 0
  /\ msgs = <<>>
  /\ sentCount = [f \in Fingerprints |-> 0]
  /\ late = {}
  /\ og_fetches = 0
  /\ aborted = FALSE
  /\ failedSingle = FALSE
  /\ fed = 0
  /\ dl = <<>>
  /\ ncalls = 0
  /\ dec = NoDecode
  /\ loop = NotRunning
  /\ conc = NotRunning
  /\ nb = NotRunning

NextSend ==
  \/ AfterItems
  \/ FlushBatch
  \/ SummaryAndAd

SpecSend == InitSend /\ [][NextSend]_vars


(***************************************************************************)
(* The schedulers run_realtime and run_digest.  loop.at is the statement   *)
(* the loop is at; a pass (push_once) is followed only as a number of      *)
(* steps, each of which can raise into the loop's try/except.  A signal    *)
(* runs handler between any two statements.                                *)
(***************************************************************************)
MaxPassSteps == 2
MaxWait == 2
MaxStarted == 2

\* run_digest: range(min(wait, 60))
DigestWaitCap == 60

\* what seconds_until(hhmm) can answer: the digest time is near, or further
\* away than the wait loop lasts
SecondsUntil == (0..MaxWait) \cup {DigestWaitCap + k : k \in 1..MaxWait}

\* nothing but the scheduler runs
PipelineAtRest ==
  /\ MEDIA_ONLY = TRUE
  /\ MAX_OG_FETCH_PER_CYCLE = 0
  /\ MEDIA_RETENTION_DAYS = RetentionDefault
  /\ ledger = {}
  /\ files = {}
  /\ now = 0
  /\ passNo = 0
  /\ catIdx = 1
  /\ items = <<>>
  /\ idx = 1
  /\ chosen = <<>>
  /\ rest = <<>>
  /\ sent_any = FALSE
  /\ og_budget = 0
  /\ msgs = <<>>
  /\ sentCount = [f \in Fingerprints |-> 0]
  /\ late = {}
  /\ og_fetches = 0
  /\ aborted = FALSE
  /\ failedSingle = FALSE
  /\ fed = 0
  /\ dl = <<>>
  /\ ncalls = 0
  /\ dec = NoDecode

InitLoop ==
  /\ PipelineAtRest
  /\ pc = "loop"
  /\ \E mode \in {"realtime", "digest"} :
       loop = [mode |-> mode, at |-> "test", stop |-> FALSE, step |-> 0,
               waitLeft |-> 0, toTarget |-> 0, started |-> 0,
               startedStopped |-> 0]
  /\ conc = NotRunning
  /\ nb = NotRunning

\* handler(*_): stop["s"] = True
handler(l) == [l EXCEPT !.stop = TRUE]

\* a loop that never looks at the flag
StoppedNever(l) == FALSE

\* the flag as the loop statements read it
Stopped(l) == l.stop

LoopUnchanged ==
  UNCHANGED <<config, locals, ledger, files, now, pc, passNo, catIdx,
              og_budget, msgs, sentCount, late, og_fetches, aborted,
              failedSingle, fed, dl, ncalls, dec, conc, nb>>

\* SIGINT or SIGTERM arrives while the loop runs
Signal ==
  /\ pc = "loop"
  /\ loop.at # "done"
  /\ loop' = handler(loop)
  /\ loop' # loop
  /\ LoopUnchanged

\* push_once is called
StartPass(l) ==
  [l EXCEPT !.at = "pass", !.step = 0,
            !.started = Min(@ + 1, MaxStarted),
            !.startedStopped = IF l.stop THEN Min(@ + 1, MaxStarted) ELSE @]

\* while not stop["s"]
WhileTest ==
  /\ pc = "loop"
  /\ loop.at = "test"
  /\ loop' = [loop EXCEPT !.at = IF Stopped(loop) THEN "done"
                                 ELSE IF loop.mode = "realtime" THEN "news"
                                 ELSE "poll"]
  /\ LoopUnchanged

\* run_realtime: if now_ts - last_news >= interval_minutes * 60; last_news
\* is 0.0 until the first pass, later the clock decides
NewsDue ==
  /\ pc = "loop"
  /\ loop.at = "news"
  /\ \E due \in (IF loop.started = 0 THEN {TRUE} ELSE BOOLEAN) :
       loop' = IF due THEN StartPass(loop) ELSE [loop EXCEPT !.at = "poll"]
  /\ LoopUnchanged

\* a step of push_once; it returns after its last step, and an exception of
\* any step ends it in the except clause of the loop
PassStep ==
  /\ pc = "loop"
  /\ loop.at = "pass"
  /\ \E raises \in BOOLEAN :
       loop' = IF raises \/ loop.step = MaxPassSteps
               THEN [loop EXCEPT !.step = 0,
                                 !.at = IF loop.mode = "realtime" THEN "poll"
                                        ELSE "test"]
               ELSE [loop EXCEPT !.step = @ + 1]
  /\ LoopUnchanged

\* stats_poll_and_count when it is due, in try/except
StatsPoll ==
  /\ pc = "loop"
  /\ loop.at = "poll"
  /\ loop' = [loop EXCEPT !.at = "reports"]
  /\ LoopUnchanged

\* check_and_send_daily_report, check_and_send_monthly_report, in
\* try/except; run_digest then computes wait = seconds_until(hhmm) and
\* loops min(wait, 60) times; loop.toTarget is the time left to hhmm
Reports ==
  /\ pc = "loop"
  /\ loop.at = "reports"
  /\ IF loop.mode = "realtime"
     THEN loop' = [loop EXCEPT !.at = "sleep"]
     ELSE \E wait \in SecondsUntil :
            loop' = [loop EXCEPT !.at = "wait",
                                 !.waitLeft = Min(wait, DigestWaitCap),
                                 !.toTarget = wait]
  /\ LoopUnchanged

\* run_realtime: time.sleep(1)
Sleep ==
  /\ pc = "loop"
  /\ loop.at = "sleep"
  /\ loop' = [loop EXCEPT !.at = "test"]
  /\ LoopUnchanged

\* run_digest: for _ in range(min(wait, 60)): if stop["s"]: break;
\* time.sleep(1)
DigestWait ==
  /\ pc = "loop"
  /\ loop.at = "wait"
  /\ loop' = IF loop.waitLeft = 0 \/ Stopped(loop)
             THEN [loop EXCEPT !.at = "check", !.waitLeft = 0]
             ELSE [loop EXCEPT !.waitLeft = @ - 1, !.toTarget = @ - 1]
  /\ LoopUnchanged

\* run_digest: if stop["s"]: break; then push_once
DigestCheck ==
  /\ pc = "loop"
  /\ loop.at = "check"
  /\ loop' = IF Stopped(loop) THEN [loop EXCEPT !.at = "done"]
             ELSE StartPass(loop)
  /\ LoopUnchanged

LoopStep ==
  \/ WhileTest
  \/ NewsDue
  \/ PassStep
  \/ StatsPoll
  \/ Reports
  \/ Sleep
  \/ DigestWait
  \/ DigestCheck

NextLoop == Signal \/ LoopStep

\* every call the loop makes returns: each statement is taken in the end
SpecLoop == InitLoop /\ [][NextLoop]_vars /\ WF_vars(LoopStep)

(***************************************************************************)
(* The ledger functions called on their own: mark_sent and already_sent    *)
(* with the fingerprint, title and link of an entry (E2 and E3 have one    *)
(* fingerprint) and any category, at advancing clock values.               *)
(***************************************************************************)
MaxLedgerCalls == 3

InitLedger ==
  /\ PipelineAtRest
  /\ pc = "ledger"
  /\ loop = NotRunning
  /\ conc = NotRunning
  /\ nb = NotRunning

LedgerUnchanged ==
  UNCHANGED <<config, locals, files, pc, passNo, catIdx, og_budget, msgs,
              sentCount, late, og_fetches, aborted, failedSingle, fed, dec,
              aside>>

\* mark_sent(conn, aid, title, link, category) at utcnow()
MarkSentCall ==
  /\ pc = "ledger"
  /\ ncalls < MaxLedgerCalls
  /\ \E e \in Entries, c \in 1..Len(Categories) :
       LET aid == make_id(e.title, e.link)
       IN /\ ledger' = mark_sent(ledger, aid, e.title, e.link, Categories[c], now + 1)
          /\ dl' = <<[op |-> "mark_sent", aid |-> aid, title |-> e.title,
                      link |-> e.link, category |-> Categories[c],
                      t |-> now + 1, found |-> FALSE]>>
  /\ now' = now + 1
  /\ ncalls' = ncalls + 1
  /\ LedgerUnchanged

\* already_sent(conn, aid)
AlreadySentCall ==
  /\ pc = "ledger"
  /\ ncalls < MaxLedgerCalls
  /\ \E e \in Entries :
       LET aid == make_id(e.title, e.link)
       IN dl' = <<[op |-> "already_sent", aid |-> aid, title |-> e.title,
                   link |-> e.link, category |-> None, t |-> now + 1,
                   found |-> already_sent(ledger, aid)]>>
  /\ ledger' = ledger
  /\ now' = now + 1
  /\ ncalls' = ncalls + 1
  /\ LedgerUnchanged

NextLedger ==
  \/ MarkSentCall
  \/ AlreadySentCall

SpecLedger == InitLedger /\ [][NextLedger]_vars

(***************************************************************************)
(* Two download_to_data calls side by side, statement by statement, on two *)
(* keys in IMAGES_DIR.  conc.fs is the folder: a file is [video, name,     *)
(* bytes], a byte chunk [owner, call, n, of] is chunk n of the of chunks   *)
(* of the body that call number call of process owner received.            *)
(***************************************************************************)
MaxChunks == 2
MaxConcCalls == 2

Procs == {1, 2}

ConcKey(i) ==
  IF i = 1 THEN make_id(E1.title, E1.link) \o <<"-img">>
  ELSE make_id(E2.title, E2.link) \o <<"-og">>

\* a temporary name that does not depend on the key
TmpNameShared(key) == <<"download", ".part">>

\* tmp_path: f"{key}.part"
TmpName(key) == key \o <<".part">>

InitConc ==
  /\ PipelineAtRest
  /\ pc = "conc"
  /\ loop = NotRunning
  /\ nb = NotRunning
  /\ conc = [fs |-> {},
             p |-> [i \in Procs |->
                      [at |-> "idle", key |-> ConcKey(i), limit |-> 0,
                       written |-> 0, of |-> 0, ext |-> None,
                       result |-> None, calls |-> 0]]]

ConcUnchanged ==
  UNCHANGED <<config, locals, ledger, files, now, pc, passNo, catIdx,
              og_budget, msgs, sentCount, late, og_fetches, aborted,
              failedSingle, fed, dl, ncalls, dec, loop, nb>>

ConcWithout(fs, name) == {f \in fs : f.name # name}

\* the call returns r
ConcReturn(q, r) == [q EXCEPT !.at = "idle", !.result = r]

\* download_to_data(url, key, False, size_limit) is called
ConcCall(i) ==
  /\ conc.p[i].at = "idle"
  /\ conc.p[i].calls < MaxConcCalls
  /\ \E limit \in SizeLimits :
       conc' = [conc EXCEPT !.p[i] =
                  [@ EXCEPT !.at = "lookup", !.limit = limit, !.written = 0,
                            !.of = 0, !.ext = None, !.result = None,
                            !.calls = @ + 1]]

\* exist = _find_existing_path(key, is_video); a non-empty file is returned
ConcLookup(i) ==
  /\ conc.p[i].at = "lookup"
  /\ \E listed \in Listings(conc.fs, conc.p[i].key, FALSE) :
       conc' = [conc EXCEPT !.p[i] =
                  IF listed # {} /\ Len((CHOOSE f \in listed : TRUE).bytes) > 0
                  THEN ConcReturn(@, PathOf(CHOOSE f \in listed : TRUE))
                  ELSE [@ EXCEPT !.at = "request"]]

\* requests.get, raise_for_status, the content type: an error goes to the
\* except clause, which removes tmp_path; HTML returns None
ConcRequest(i) ==
  /\ conc.p[i].at = "request"
  /\ \E resp \in Responses, body \in 1..MaxChunks :
       IF ~resp.ok
       THEN conc' = [conc EXCEPT
                       !.fs = ConcWithout(@, TmpName(conc.p[i].key)),
                       !.p[i] = ConcReturn(@, None)]
       ELSE IF Contains(resp.ct, <<"text/html">>)
       THEN conc' = [conc EXCEPT !.p[i] = ConcReturn(@, None)]
       ELSE conc' = [conc EXCEPT !.p[i] =
                       [@ EXCEPT !.at = "open", !.of = body,
                                 !.ext = <<_pick_ext_by_ct(resp.ct, FALSE)>>]]

\* open(tmp_path, "wb"): the file is created, or emptied if it is there
ConcOpen(i) ==
  /\ conc.p[i].at = "open"
  /\ conc' = [conc EXCEPT
                !.fs = ConcWithout(@, TmpName(conc.p[i].key)) \cup
                         {[video |-> FALSE, name |-> TmpName(conc.p[i].key),
                           bytes |-> <<>>]},
                !.p[i] = [@ EXCEPT !.at = "write"]]

\* one round of the chunk loop: the stream breaks (except clause), or the
\* chunk is written to the file that tmp_path names and the size is tested
ConcWrite(i) ==
  /\ conc.p[i].at = "write"
  /\ conc.p[i].written < conc.p[i].of
  /\ LET q == conc.p[i]
         tmp == TmpName(q.key)
         chunk == [owner |-> i, call |-> q.calls, n |-> q.written + 1, of |-> q.of]
         grown == {IF f.name = tmp THEN [f EXCEPT !.bytes = Append(@, chunk)] ELSE f :
                     f \in conc.fs}
     IN \E broken \in BOOLEAN :
          IF broken
          THEN conc' = [conc EXCEPT !.fs = ConcWithout(@, tmp),
                                    !.p[i] = ConcReturn(@, None)]
          ELSE IF q.limit # 0 /\ q.written + 1 > q.limit
          THEN conc' = [conc EXCEPT !.fs = ConcWithout(grown, tmp),
                                    !.p[i] = ConcReturn(@, None)]
          ELSE conc' = [conc EXCEPT !.fs = grown,
                                    !.p[i] = [@ EXCEPT !.written = @ + 1]]

\* os.replace(tmp_path, final_path); without tmp_path it raises and the
\* except clause returns None
ConcReplace(i) ==
  /\ conc.p[i].at = "write"
  /\ conc.p[i].written = conc.p[i].of
  /\ LET q == conc.p[i]
         tmp == TmpName(q.key)
         final == q.key \o q.ext
     IN IF \E f \in conc.fs : f.name = tmp
        THEN conc' = [conc EXCEPT
                        !.fs = ConcWithout(ConcWithout(@, tmp), final) \cup
                                 {[f EXCEPT !.name = final] :
                                    f \in {g \in conc.fs : g.name = tmp}},
                        !.p[i] = ConcReturn(@, <<Folder(FALSE)>> \o final)]
        ELSE conc' = [conc EXCEPT !.p[i] = ConcReturn(@, None)]

ConcStep(i) ==
  \/ ConcCall(i)
  \/ ConcLookup(i)
  \/ ConcRequest(i)
  \/ ConcOpen(i)
  \/ ConcWrite(i)
  \/ ConcReplace(i)

NextConc ==
  /\ pc = "conc"
  /\ \E i \in Procs : ConcStep(i)
  /\ ConcUnchanged

SpecConc == InitConc /\ [][NextConc]_vars

(***************************************************************************)
(* Two workers that call download_to_data with one key, and workers that   *)
(* are killed in the chunk loop: the statements are those of SpecConc.     *)
(***************************************************************************)
InitPart ==
  /\ PipelineAtRest
  /\ pc = "part"
  /\ loop = NotRunning
  /\ nb = NotRunning
  /\ conc = [fs |-> {},
             p |-> [i \in Procs |->
                      [at |-> "idle", key |-> ConcKey(1), limit |-> 0,
                       written |-> 0, of |-> 0, ext |-> None,
                       result |-> None, calls |-> 0]]]

\* the worker is killed between two chunks: no except clause runs, the
\* file that tmp_path names stays
ConcInterrupt(i) ==
  /\ conc.p[i].at = "write"
  /\ conc.p[i].written > 0
  /\ conc' = [conc EXCEPT !.p[i] = ConcReturn(@, None)]

NextPart ==
  /\ pc = "part"
  /\ \E i \in Procs : ConcStep(i) \/ ConcInterrupt(i)
  /\ ConcUnchanged

SpecPart == InitPart /\ [][NextPart]_vars

(***************************************************************************)
(* news_bot.py: push_news_once, the link-keyed pipeline over posted_news.  *)
(* nb.posted is the table for one chat, rows <<category, link>>;           *)
(* nb.delivered is history: the rows of the links of every category        *)
(* message that the Bot API confirmed; nb.msgs are the sendMessage calls   *)
(* of the pass (cat "" for the message that says there is no news).        *)
(***************************************************************************)
MaxNewsFeed == 2
MaxNewsPasses == 2

NEWS_ITEMS_PER_CAT == 8

NewsOrder == <<"finance", "sea", "war">>

\* a link is a sequence of pieces of the URL; "p243" stands for a path of
\* 243 characters, so that the two long links agree on their first 255
\* characters and differ after them
NewsLinks == {<<"pub.example/", "n1">>, <<"pub.example/", "n2">>}

LongLinks == {<<"pub.example/", "p243", "n1">>,
              <<"pub.example/", "p243", "n2">>}

\* number of characters of a piece
Chars(piece) ==
  CASE piece = "pub.example/" -> 12
    [] piece = "p243" -> 243
    [] OTHER -> 2

\* PRIMARY KEY (chat_id, category(8), link(255)): the index keeps the first
\* 255 characters of the link
LinkKeyChars == 255

\* the pieces of the link that lie within its first n characters
RECURSIVE KeyPrefix(_, _)
KeyPrefix(link, n) ==
  IF link = <<>> \/ Chars(Head(link)) > n THEN <<>>
  ELSE <<Head(link)>> \o KeyPrefix(Tail(link), n - Chars(Head(link)))

\* what feedparser hands over for the feeds of a category, in order
NewsFeeds(links) == UNION {[1..k -> links] : k \in 0..MaxNewsFeed}

\* http_get: the decoded answer with its ok field, or None after an
\* exception (timeout, connection, HTTP status, bad JSON)
HttpResults == {"ok", "not_ok", "none"}

RECURSIVE UniqLinks(_, _)
UniqLinks(links, seen) ==
  IF links = <<>> THEN <<>>
  ELSE IF Head(links) \in seen THEN UniqLinks(Tail(links), seen)
       ELSE <<Head(links)>> \o UniqLinks(Tail(links), seen \cup {Head(links)})

\* fetch_rss_list: first occurrence of each link, at most max_items
fetch_rss_list(feed, max_items) ==
  LET uniq == UniqLinks(feed, {})
  IN SubSeq(uniq, 1, Min(max_items, Len(uniq)))

already_posted(rows, category, link) == <<category, link>> \in rows

\* INSERT IGNORE INTO posted_news: the row is dropped without an error when
\* a row with the same primary key exists, and the key holds the first 255
\* characters of the link (the category names are shorter than 8 characters)
mark_posted(rows, category, link) ==
  IF \E r \in rows : /\ r[1] = category
                     /\ KeyPrefix(r[2], LinkKeyChars) = KeyPrefix(link, LinkKeyChars)
  THEN rows
  ELSE rows \cup {<<category, link>>}

\* for it in new_items: mark_posted(chat_id, cat, it["link"]); the answer
\* of send_message_html is not looked at
RECURSIVE MarkAfterSend(_, _, _, _)
MarkAfterSend(rows, category, links, result) ==
  IF links = <<>> THEN rows
  ELSE MarkAfterSend(mark_posted(rows, category, Head(links)), category,
                     Tail(links), result)

InitNews ==
  /\ PipelineAtRest
  /\ pc = "news"
  /\ loop = NotRunning
  /\ conc = NotRunning
  /\ nb = [at |-> "idle", k |-> 1, sent_any |-> FALSE, posted |-> {},
           marked |-> {}, delivered |-> {}, msgs |-> <<>>, passes |-> 0,
           links |-> NewsLinks]

NewsUnchanged ==
  UNCHANGED <<config, locals, ledger, files, now, pc, passNo, catIdx,
              og_budget, msgs, sentCount, late, og_fetches, aborted,
              failedSingle, fed, dl, ncalls, dec, loop, conc>>

\* push_news_once is called
PushNewsStart ==
  /\ pc = "news"
  /\ nb.at = "idle"
  /\ nb.passes < MaxNewsPasses
  /\ nb' = [nb EXCEPT !.at = "cats", !.k = 1, !.sent_any = FALSE, !.msgs = <<>>]
  /\ NewsUnchanged

\* one round of the category loop
PushNewsCategory ==
  /\ pc = "news"
  /\ nb.at = "cats"
  /\ nb.k <= Len(NewsOrder)
  /\ \E feed \in NewsFeeds(nb.links), result \in HttpResults :
       LET cat == NewsOrder[nb.k]
           list == fetch_rss_list(feed, NEWS_ITEMS_PER_CAT)
           new_items == SelectSeq(list, LAMBDA l : ~already_posted(nb.posted, cat, l))
       IN IF new_items = <<>>
          THEN nb' = [nb EXCEPT !.k = @ + 1]
          ELSE nb' = [nb EXCEPT
                        !.k = @ + 1,
                        !.msgs = Append(@, [cat |-> cat, links |-> new_items,
                                            result |-> result]),
                        !.delivered = IF result = "ok"
                                      THEN @ \cup {<<cat, new_items[i]>> :
                                                     i \in 1..Len(new_items)}
                                      ELSE @,
                        !.posted = MarkAfterSend(@, cat, new_items, result),
                        !.marked = @ \cup {<<cat, new_items[i]>> :
                                             i \in 1..Len(new_items)},
                        !.sent_any = TRUE]
  /\ NewsUnchanged

\* after the loop: the "no news" message if no category was sent
PushNewsEnd ==
  /\ pc = "news"
  /\ nb.at = "cats"
  /\ nb.k > Len(NewsOrder)
  /\ \E result \in HttpResults :
       nb' = [nb EXCEPT
                !.at = "idle",
                !.passes = @ + 1,
                !.msgs = IF nb.sent_any THEN @
                         ELSE Append(@, [cat |-> "", links |-> <<>>,
                                         result |-> result])]
  /\ NewsUnchanged

NextNews ==
  \/ PushNewsStart
  \/ PushNewsCategory
  \/ PushNewsEnd

SpecNews == InitNews /\ [][NextNews]_vars

\* the same passes over feeds whose links are longer than the key of
\* posted_news
InitLong ==
  /\ PipelineAtRest
  /\ pc = "news"
  /\ loop = NotRunning
  /\ conc = NotRunning
  /\ nb = [at |-> "idle", k |-> 1, sent_any |-> FALSE, posted |-> {},
           marked |-> {}, delivered |-> {}, msgs |-> <<>>, passes |-> 0,
           links |-> LongLinks]

SpecLong == InitLong /\ [][NextNews]_vars

(***************************************************************************)
(* news_bot.py: invite binding.  One join or leave in a chat reaches the  *)
(* bot as a chat_member update, as a service message, or as both.        *)
(***************************************************************************)
MaxEvents == 3

INVITE_REWARD_POINTS == 10

Chats == {1, 2}

Users == {1, 2, 3}

\* a user id that a Telegram object does not carry
NoId == 0

Forms == {"chat_member", "message"}

JoinedStatus == {"member", "administrator", "restricted"}

GoneStatus == {"left", "kicked"}

\* scores.points += delta and one row of score_logs; credits and debits
\* count the rows that the event being delivered has written so far
add_points(s, chat_id, target_id, delta, reason) ==
  [s EXCEPT !.points[chat_id][target_id] = @ + delta,
            !.logsum[chat_id][target_id] = @ + delta,
            !.credits = IF reason = "invite_auto_join" THEN @ + 1 ELSE @,
            !.debits = IF reason = "invite_auto_leave" THEN @ + 1 ELSE @]

\* the binding without the look-up in invites: the primary key
\* (chat_id, invitee_id) keeps one row, the inviter is credited each time
BindInviteEveryTime(s, chat_id, invitee_id, inviter_id) ==
  IF invitee_id = NoId THEN s
  ELSE IF inviter_id # NoId /\ inviter_id # invitee_id
       THEN add_points([s EXCEPT !.invites[chat_id][invitee_id] =
                                    IF @ = NoId THEN inviter_id ELSE @],
                       chat_id, inviter_id, INVITE_REWARD_POINTS, "invite_auto_join")
       ELSE s

bind_invite_if_needed(s, chat_id, invitee_id, inviter_id) ==
  IF invitee_id = NoId THEN s
  ELSE IF inviter_id # NoId /\ inviter_id # invitee_id
       THEN IF s.invites[chat_id][invitee_id] = NoId
            THEN add_points([s EXCEPT !.invites[chat_id][invitee_id] = inviter_id],
                            chat_id, inviter_id, INVITE_REWARD_POINTS, "invite_auto_join")
            ELSE s
       ELSE s

\* the row of the invitee, if any: debit its inviter and delete it
DebitAndDelete(s, chat_id, invitee_id) ==
  IF invitee_id = NoId THEN s
  ELSE LET inviter_id == s.invites[chat_id][invitee_id]
       IN IF inviter_id = NoId THEN s
          ELSE [add_points(s, chat_id, inviter_id, 0 - INVITE_REWARD_POINTS,
                           "invite_auto_leave")
                  EXCEPT !.invites[chat_id][invitee_id] = NoId]

handle_chat_member_update(s, chat_id, old_status, new_status, target, changer, creator) ==
  IF target = NoId THEN s
  ELSE IF old_status \in {"left", "kicked"} /\ new_status \in JoinedStatus
       THEN LET inviter == IF creator # NoId THEN creator
                           ELSE IF changer # NoId /\ changer # target THEN changer
                                ELSE NoId
            IN bind_invite_if_needed(s, chat_id, target, inviter)
       ELSE IF old_status \in {"member", "restricted"} /\ new_status \in GoneStatus
            THEN DebitAndDelete(s, chat_id, target)
            ELSE s

\* one member per service message
handle_new_members(s, chat_id, from, member) ==
  IF from # NoId /\ from # member
  THEN bind_invite_if_needed(s, chat_id, member, from)
  ELSE s

handle_left_member(s, chat_id, left) == DebitAndDelete(s, chat_id, left)

NoEvent == [kind |-> "none", chat |-> 1, user |-> NoId, from |-> NoId,
            creator |-> NoId, old |-> "", new |-> ""]

InitInvite ==
  /\ PipelineAtRest
  /\ pc = "invite"
  /\ loop = NotRunning
  /\ conc = NotRunning
  /\ nb = [invites |-> [c \in Chats |-> [u \in Users |-> NoId]],
           points |-> [c \in Chats |-> [u \in Users |-> 0]],
           logsum |-> [c \in Chats |-> [u \in Users |-> 0]],
           members |-> [c \in Chats |-> {}],
           ev |-> NoEvent, pending |-> {}, handled |-> 0, credits |-> 0,
           debits |-> 0, events |-> 0]

\* a user joins a chat: through an invite link of creator (from is the
\* user), through a public link (no creator), or added by from
Join ==
  /\ pc = "invite"
  /\ nb.pending = {}
  /\ nb.events < MaxEvents
  /\ \E c \in Chats, u \in Users, f \in Users, cr \in Users \cup {NoId},
        old \in GoneStatus, new \in JoinedStatus, forms \in SUBSET Forms :
       /\ u \notin nb.members[c]
       /\ forms # {}
       /\ cr # NoId => f = u
       /\ nb' = [nb EXCEPT !.members[c] = @ \cup {u},
                           !.ev = [kind |-> "join", chat |-> c, user |-> u,
                                   from |-> f, creator |-> cr,
                                   old |-> old, new |-> new],
                           !.pending = forms, !.handled = 0, !.credits = 0,
                           !.debits = 0,
                           !.events = @ + 1]
  /\ NewsUnchanged

\* a member leaves or is removed
Leave ==
  /\ pc = "invite"
  /\ nb.pending = {}
  /\ nb.events < MaxEvents
  /\ \E c \in Chats, u \in Users,
        old \in JoinedStatus, new \in GoneStatus, forms \in SUBSET Forms :
       /\ u \in nb.members[c]
       /\ forms # {}
       /\ nb' = [nb EXCEPT !.members[c] = @ \ {u},
                           !.ev = [kind |-> "leave", chat |-> c, user |-> u,
                                   from |-> u, creator |-> NoId,
                                   old |-> old, new |-> new],
                           !.pending = forms, !.handled = 0, !.credits = 0,
                           !.debits = 0,
                           !.events = @ + 1]
  /\ NewsUnchanged

\* process_updates_once hands the chat_member update to its handler
ChatMemberUpdate ==
  /\ pc = "invite"
  /\ "chat_member" \in nb.pending
  /\ LET e == nb.ev
         s == handle_chat_member_update(nb, e.chat, e.old, e.new, e.user,
                                        e.from, e.creator)
     IN nb' = [s EXCEPT !.pending = @ \ {"chat_member"}, !.handled = @ + 1,
                       !.ev = IF nb.pending = {"chat_member"}
                              THEN [NoEvent EXCEPT !.kind = e.kind] ELSE @]
  /\ NewsUnchanged

\* process_updates_once hands the service message to its handler
MemberMessage ==
  /\ pc = "invite"
  /\ "message" \in nb.pending
  /\ LET e == nb.ev
         s == IF e.kind = "join"
              THEN handle_new_members(nb, e.chat, e.from, e.user)
              ELSE handle_left_member(nb, e.chat, e.user)
     IN nb' = [s EXCEPT !.pending = @ \ {"message"}, !.handled = @ + 1,
                       !.ev = IF nb.pending = {"message"}
                              THEN [NoEvent EXCEPT !.kind = e.kind] ELSE @]
  /\ NewsUnchanged

NextInvite ==
  \/ Join
  \/ Leave
  \/ ChatMemberUpdate
  \/ MemberMessage

SpecInvite == InitInvite /\ [][NextInvite]_vars

(***************************************************************************)
(* news_bot.py: redemption of points, by the /redeem command and by the   *)
(* ACT_REDEEM button.                                                      *)
(***************************************************************************)
MaxPoints == 6

MaxDebt == 2

MaxRedeemCalls == 3

\* REDEEM_RATE and REDEEM_MIN_POINTS are read from the environment; a rate
\* is a positive number of points per U, a threshold is not negative
Rates == {2, 3}

Thresholds == {0, 3, 4}

REDEEM_RATE == nb.rate

REDEEM_MIN_POINTS == nb.min

\* /redeem without a number, or with something that is not all digits
NoArg == 0 - 1

Refused == [done |-> FALSE, target_u |-> 0, deduct_pts |-> 0]

\* /redeem that takes the requested number of U as it comes
RedeemCommandUnchecked(pts, req_u) ==
  IF pts < REDEEM_MIN_POINTS THEN Refused
  ELSE LET max_u == pts \div REDEEM_RATE
           target_u == IF req_u # NoArg THEN req_u ELSE max_u
       IN [done |-> TRUE, target_u |-> target_u,
           deduct_pts |-> target_u * REDEEM_RATE]

\* cmd == "/redeem": what is deducted, if anything
redeem_command(pts, req_u) ==
  IF pts < REDEEM_MIN_POINTS THEN Refused
  ELSE LET max_u == pts \div REDEEM_RATE
       IN IF req_u # NoArg /\ req_u > max_u THEN Refused
          ELSE LET target_u == IF req_u # NoArg THEN req_u ELSE max_u
               IN [done |-> TRUE, target_u |-> target_u,
                   deduct_pts |-> target_u * REDEEM_RATE]

\* data == "ACT_REDEEM": what is deducted, if anything
redeem_button(pts) ==
  IF pts < REDEEM_MIN_POINTS THEN Refused
  ELSE LET max_u == pts \div REDEEM_RATE
       IN IF max_u <= 0 THEN Refused
          ELSE [done |-> TRUE, target_u |-> max_u,
                deduct_pts |-> max_u * REDEEM_RATE]

InitRedeem ==
  /\ PipelineAtRest
  /\ pc = "redeem"
  /\ loop = NotRunning
  /\ conc = NotRunning
  /\ \E rate \in Rates, min \in Thresholds, pts \in (0 - MaxDebt)..MaxPoints :
       nb = [rate |-> rate, min |-> min, points |-> pts,
             last |-> [op |-> "none", before |-> pts, deduct_pts |-> 0,
                       done |-> FALSE],
             calls |-> 0]

\* the other handlers that call _add_points: check-in, invites (a leave
\* debits), admin adjustments, rewards
OtherPoints ==
  /\ pc = "redeem"
  /\ nb.calls < MaxRedeemCalls
  /\ \E delta \in {0 - 1, 1, 2} :
       /\ nb.points + delta \in (0 - MaxDebt)..MaxPoints
       /\ nb' = [nb EXCEPT !.points = @ + delta,
                           !.last = [op |-> "other", before |-> nb.points,
                                     deduct_pts |-> 0 - delta, done |-> FALSE],
                           !.calls = @ + 1]
  /\ NewsUnchanged

RedeemCommand ==
  /\ pc = "redeem"
  /\ nb.calls < MaxRedeemCalls
  /\ \E req_u \in {NoArg} \cup (0..MaxPoints) :
       LET pts == nb.points
           r == redeem_command(pts, req_u)
       IN nb' = [nb EXCEPT !.points = IF r.done THEN @ - r.deduct_pts ELSE @,
                           !.last = [op |-> "command", before |-> pts,
                                     deduct_pts |-> r.deduct_pts, done |-> r.done],
                           !.calls = @ + 1]
  /\ NewsUnchanged

RedeemButton ==
  /\ pc = "redeem"
  /\ nb.calls < MaxRedeemCalls
  /\ LET pts == nb.points
         r == redeem_button(pts)
     IN nb' = [nb EXCEPT !.points = IF r.done THEN @ - r.deduct_pts ELSE @,
                         !.last = [op |-> "button", before |-> pts,
                                   deduct_pts |-> r.deduct_pts, done |-> r.done],
                         !.calls = @ + 1]
  /\ NewsUnchanged

NextRedeem ==
  \/ OtherPoints
  \/ RedeemCommand
  \/ RedeemButton

SpecRedeem == InitRedeem /\ [][NextRedeem]_vars

(***************************************************************************)
(* news_bot.py: the daily report of scheduler_step.                        *)
(***************************************************************************)
MaxDays == 3

MaxSchedSteps == 4

\* STATS_CHAT_IDS or gather_known_chats()
StatsChats == <<1, 2>>

\* what the body of the try does for one chat: it ends normally, or
\* build_daily_report raises, or send_message_html raises, or list_top_day
\* or _add_points raises before or after the first reward was written
ReportOutcomes == {"ok", "ok_no_rows", "build_raises", "send_raises",
                   "top_raises", "reward_raises"}

\* the report of (cid, yday) with state_set inside the try, after the rewards
DailyReportMarkOnSuccess(s, cid, yday, outcome) ==
  LET rk == <<cid, yday>>
      sent == outcome \in {"ok", "ok_no_rows", "top_raises", "reward_raises"}
      rewarded == outcome \in {"ok", "reward_raises"}
  IN IF rk \in s.done THEN s
     ELSE [s EXCEPT !.reports[rk] = IF sent THEN @ + 1 ELSE @,
                    !.rewards[rk] = IF rewarded THEN @ + 1 ELSE @,
                    !.done = IF outcome \in {"ok", "ok_no_rows"}
                             THEN @ \cup {rk} ELSE @]

\* one round of "for cid in chats" in maybe_daily_report
DailyReportFor(s, cid, yday, outcome) ==
  LET rk == <<cid, yday>>
      sent == outcome \in {"ok", "ok_no_rows", "top_raises", "reward_raises"}
      rewarded == outcome \in {"ok", "reward_raises"}
  IN IF rk \in s.done THEN s
     ELSE [s EXCEPT !.reports[rk] = IF sent THEN @ + 1 ELSE @,
                    !.rewards[rk] = IF rewarded THEN @ + 1 ELSE @,
                    !.done = @ \cup {rk}]

RECURSIVE DailyReportLoop(_, _, _, _)
DailyReportLoop(s, chats, yday, outs) ==
  IF chats = <<>> THEN s
  ELSE DailyReportLoop(DailyReportFor(s, Head(chats), yday, outs[Head(chats)]),
                       Tail(chats), yday, outs)

ReportKeys == {<<StatsChats[i], d>> : i \in 1..Len(StatsChats), d \in 0..MaxDays}

InitDaily ==
  /\ PipelineAtRest
  /\ pc = "daily"
  /\ loop = NotRunning
  /\ conc = NotRunning
  /\ nb = [day |-> 1, phase |-> "before", done |-> {},
           reports |-> [rk \in ReportKeys |-> 0],
           rewards |-> [rk \in ReportKeys |-> 0],
           steps |-> 0]

\* the local clock moves on: into the minute STATS_DAILY_AT, out of it, and
\* to the next day
ClockMoves ==
  /\ pc = "daily"
  /\ \/ /\ nb.phase = "before"
        /\ nb' = [nb EXCEPT !.phase = "during"]
     \/ /\ nb.phase = "during"
        /\ nb' = [nb EXCEPT !.phase = "after"]
     \/ /\ nb.phase \in {"before", "after"}
        /\ nb.day < MaxDays
        /\ nb' = [nb EXCEPT !.phase = "before", !.day = @ + 1]
  /\ NewsUnchanged

\* scheduler_step calls maybe_daily_report
MaybeDailyReport ==
  /\ pc = "daily"
  /\ nb.steps < MaxSchedSteps
  /\ IF nb.phase # "during"
     THEN nb' = [nb EXCEPT !.steps = @ + 1]
     ELSE \E outs \in [{StatsChats[i] : i \in 1..Len(StatsChats)} -> ReportOutcomes] :
            nb' = [DailyReportLoop(nb, StatsChats, nb.day - 1, outs)
                     EXCEPT !.steps = @ + 1]
  /\ NewsUnchanged

NextDaily ==
  \/ ClockMoves
  \/ MaybeDailyReport

SpecDaily == InitDaily /\ [][NextDaily]_vars

(***************************************************************************)
(* news_bot.py: process_updates_once, called from the main loop.  The Bot  *)
(* API numbers updates upwards, answers getUpdates with the unconfirmed    *)
(* updates from offset on, and forgets those below offset.                 *)
(***************************************************************************)
MaxUpdates == 3

MaxPolls == 5

UpdateIds == 1..MaxUpdates

\* offset None (no offset parameter): from the earliest unconfirmed update
NoOffset == 0

\* what getUpdates answers, in the order of the identifiers
Unconfirmed(pending, offset) ==
  SelectSeq([i \in UpdateIds |-> i],
            LAMBDA i : i \in pending /\ (offset = NoOffset \/ i >= offset))

\* the loop with state_set moved behind the dispatch: the first k - 1
\* updates are handled, update k raises in its handler
ProcessStoreAfterDispatch(s, result, k) ==
  LET n == Min(k, Len(result))
      ok == Min(k - 1, Len(result))
  IN [s EXCEPT
        !.last_update_id = IF ok = 0 THEN @ ELSE Max(@, result[ok]),
        !.dispatched = [id \in UpdateIds |->
                          IF \E j \in 1..n : result[j] = id
                          THEN @[id] + 1 ELSE @[id]]]

\* for u in resp["result"]: store max(last_update_id, update_id), then
\* dispatch; the first k - 1 updates are handled, update k raises in its
\* handler and ends the loop (k beyond the result: nothing raises)
ProcessResult(s, result, k) ==
  LET n == Min(k, Len(result))
  IN [s EXCEPT
        !.last_update_id = IF n = 0 THEN @ ELSE Max(@, result[n]),
        !.dispatched = [id \in UpdateIds |->
                          IF \E j \in 1..n : result[j] = id
                          THEN @[id] + 1 ELSE @[id]]]

InitUpdates ==
  /\ PipelineAtRest
  /\ pc = "updates"
  /\ loop = NotRunning
  /\ conc = NotRunning
  /\ nb = [last_update_id |-> 0, pending |-> {}, next_id |-> 1,
           dispatched |-> [id \in UpdateIds |-> 0], raised |-> FALSE,
           polls |-> 0]

\* a message, a button press or a membership change becomes an update
UpdateArrives ==
  /\ pc = "updates"
  /\ nb.next_id <= MaxUpdates
  /\ nb' = [nb EXCEPT !.pending = @ \cup {nb.next_id}, !.next_id = @ + 1]
  /\ NewsUnchanged

\* getUpdates fails or answers with ok false: sleep and return
PollFails ==
  /\ pc = "updates"
  /\ nb.polls < MaxPolls
  /\ nb' = [nb EXCEPT !.polls = @ + 1, !.raised = FALSE]
  /\ NewsUnchanged

\* process_updates_once with an answer
PollUpdates ==
  /\ pc = "updates"
  /\ nb.polls < MaxPolls
  /\ LET offset == IF nb.last_update_id # 0 THEN nb.last_update_id + 1
                       ELSE NoOffset
         kept == IF offset = NoOffset THEN nb.pending
                 ELSE {i \in nb.pending : i >= offset}
         result == Unconfirmed(nb.pending, offset)
     IN \E k \in 1..(Len(result) + 1) :
          nb' = [ProcessResult(nb, result, k)
                   EXCEPT !.pending = kept, !.polls = @ + 1,
                          !.raised = (k <= Len(result))]
  /\ NewsUnchanged

NextUpdates ==
  \/ UpdateArrives
  \/ PollFails
  \/ PollUpdates

SpecUpdates == InitUpdates /\ [][NextUpdates]_vars

(***************************************************************************)
(* Properties.                                                             *)
(***************************************************************************)
PassOver == pc = "idle" /\ passNo > 0

AllCategoriesDone == catIdx = Len(Categories) + 1

\* C1: once a fingerprint is in the ledger, an entry with that fingerprint
\* causes no link-resolution call, no scrape, no download and no send in any
\* later fetch_category_news / send_album_with_ad.
C1_LedgerDedup == late = {}

C3_MarkedAfterDelivery == \A r \in ledger : sentCount[r.id] >= 1

\* rows were written after a confirmed send, and a later send call failed
\* and left its fingerprints out of the ledger
C3_Witness ==
  /\ ledger # {}
  /\ \E i \in 1..Len(msgs) :
       /\ msgs[i].result = "fail"
       /\ Range(msgs[i].ids) \cap LedgerIds(ledger) = {}

\* C4: the attempt of a group of two or more either succeeds and leaves
\* every member in the ledger, or fails and leaves the ledger as it was.
C4_BatchAtomicity ==
  [][(pc = "flush" /\ Len(NextBatch(rest)) >= 2) =>
       LET ids == Range(IdsOf(NextBatch(rest)))
           answer == msgs'[Len(msgs')].result
       IN \/ answer = "ok" /\ ids \subseteq LedgerIds(ledger')
          \/ answer # "ok" /\ ledger' = ledger]_vars

\* a group of two was attempted and failed, none of its members is marked
C4_Witness ==
  \E i \in 1..Len(msgs) :
    /\ msgs[i].kind = "group"
    /\ msgs[i].result # "ok"
    /\ \A f \in Range(msgs[i].ids) : f \notin LedgerIds(ledger)

\* C5: when a single-item send fails in a pass, the groups of the other
\* categories of that pass are still attempted: the pass reaches the end of
\* the category loop.
C5_FailureIsolation == (PassOver /\ failedSingle) => AllCategoriesDone

\* C6: no failure of a network call ends the pass early: every pass runs
\* through all categories.
C6_FailureContainment == PassOver => (~aborted /\ AllCategoriesDone)

\* C7 as claimed: two calls of download_to_data with the same key issue at
\* most one network request in total and return the same path.
C7_TwoCallsOneRequest ==
  (Len(dl) = 2 /\ dl[1].key = dl[2].key)
    => (~(dl[1].net /\ dl[2].net) /\ dl[1].path = dl[2].path)

\* the second call finds, as the only file of its key in its folder, the
\* non-empty file whose path the first call returned
CacheHitCase ==
  /\ Len(dl) = 2
  /\ dl[1].key = dl[2].key
  /\ dl[1].video = dl[2].video
  /\ dl[1].path # None
  /\ Cardinality(dl[2].seen) = 1
  /\ \A f \in dl[2].seen : PathOf(f) = dl[1].path /\ f.size > 0

\* C7: when a call returned a path and the next call with the same key and
\* is_video finds that file, non-empty, as the only cached file of the key,
\* it issues no network request and returns the same path.
C7_CacheHit == CacheHitCase => (~dl[2].net /\ dl[2].path = dl[1].path)

\* a download followed by a hit
C7_Witness == CacheHitCase /\ dl[1].net /\ ~dl[2].net

VideoExts == {".mp4", ".webm", ".mov"}

\* C8: a download whose response declares a video content type is cached
\* with a video extension, whatever the URL path ends in.
C8_ExtensionByContentType ==
  \A i \in 1..Len(dl) :
    (dl[i].path # None /\ dl[i].net /\ Contains(dl[i].ct, <<"video/">>))
      => dl[i].path[Len(dl[i].path)] \in VideoExts

\* C9: during a pass, the budget has gone down by exactly the number of
\* fetch_og_image calls made.
C9_BudgetDecrement ==
  (pc \in {"fetch", "items", "flush", "summary"} \/ PassOver)
    => og_fetches = MAX_OG_FETCH_PER_CYCLE - og_budget

\* C10: the fetch_og_image calls of one pass never outnumber
\* MAX_OG_FETCH_PER_CYCLE.
C10_BudgetCap == og_fetches <= MAX_OG_FETCH_PER_CYCLE


InPass == pc \in {"fetch", "items", "flush", "summary"}

\* C11: og_budget is one counter of the pass: it stays between 0 and the
\* initial value MAX_OG_FETCH_PER_CYCLE, and no step of a pass (in
\* particular no change of category) raises it.
C11_BudgetOneCounter ==
  /\ [](og_budget \in 0..MAX_OG_FETCH_PER_CYCLE)
  /\ [][InPass => og_budget' <= og_budget]_vars

\* the item loop of a later category starts with what an earlier category
\* left of the budget
C11_Witness ==
  /\ pc = "items"
  /\ catIdx >= 2
  /\ idx = 1
  /\ og_budget < MAX_OG_FETCH_PER_CYCLE

\* the item at the loop position is not in the ledger and keeps a native,
\* non-placeholder image
NativeImageItem ==
  /\ pc = "items"
  /\ idx <= Len(items)
  /\ ~already_sent(ledger, make_id(items[idx].title, items[idx].link))
  /\ NativeImg(items[idx]) # None

\* C12: the iteration of an item that carries a usable native image makes
\* no fetch_og_image call and leaves the budget as it was.
C12_ScrapeOnlyWithoutMedia ==
  [][NativeImageItem => (og_budget' = og_budget /\ og_fetches' = og_fetches)]_vars

\* C13: no file of the cache holds an image fetched from a host of
\* PLACEHOLDER_DOMAINS, and no item handed to a send call has such a file.
C13_NoPlaceholderMedia ==
  /\ \A f \in files : ~f.thumb
  /\ \A i \in 1..Len(chosen) :
       \A f \in files : PathOf(f) = chosen[i].local_path => ~f.thumb

\* C14: a sweep removes every file older than the retention window and
\* keeps every file younger than the cutoff; with a retention of zero days
\* or less it removes nothing.
C14_RetentionSweep ==
  [][(pc = "sweep" /\ now' # now) =>
       LET cutoff == now' - MEDIA_RETENTION_DAYS * SecondsPerDay
       IN IF MEDIA_RETENTION_DAYS <= 0 THEN files' = files
          ELSE /\ files' \subseteq files
               /\ \A f \in files : /\ f.mtime < cutoff => f \notin files'
                                   /\ f.mtime > cutoff => f \in files']_vars

\* the last sweep kept a file one second younger than its cutoff and
\* removed an older one
C14_Witness ==
  /\ pc = "sweep"
  /\ MEDIA_RETENTION_DAYS > 0
  /\ dl # <<>>
  /\ \E f \in dl[1].before \cap files :
       f.mtime = now - MEDIA_RETENTION_DAYS * SecondsPerDay + 1
  /\ \E g \in dl[1].before \ files :
       g.mtime < now - MEDIA_RETENTION_DAYS * SecondsPerDay

\* the order of the strategies as claimed
ClaimedOrder == <<"direct", "urlparam", "b64", "summary", "live">>

NoLive(e) == [i \in 1..Len(e.cands) |-> None]

\* the entry of the pipeline's form, for an entry with one candidate link
AsFeedEntry(e) ==
  [link |-> e.cands[1].link, urlparam |-> e.cands[1].urlparam,
   b64 |-> e.cands[1].b64, summaryHref |-> e.summaryHref]

\* C15: publisher_url_from_entry runs its strategies in the order direct
\* link, ?url= parameter, base64 token, summary href, live inspection, and
\* returns the result of the first that succeeds without running a later
\* one; an entry whose link is off the aggregator is returned as it is,
\* with no base64 scan and no network call.
C15_CascadeOrder ==
  (pc = "decode" /\ dec.stage = Returned) =>
    LET ran == dec.ran
        n == Len(dec.ran)
    IN /\ n >= 1
       /\ ran = SubSeq(ClaimedOrder, 1, n)
       /\ \A k \in 1..(n - 1) : Attempt(ClaimedOrder[k], dec.e, NoLive(dec.e)) = None
       /\ n < Len(ClaimedOrder) =>
            /\ dec.url # None
            /\ dec.url = Attempt(ClaimedOrder[n], dec.e, NoLive(dec.e))
            /\ ~dec.net
       /\ ~IsGnews(dec.e.cands[1].link) =>
            /\ ran = <<"direct">>
            /\ dec.url = dec.e.cands[1].link
       /\ Len(dec.e.cands) = 1 =>
            \E live \in LiveResults :
              /\ publisher_url_from_entry(AsFeedEntry(dec.e), live).url = dec.url
              /\ publisher_url_from_entry(AsFeedEntry(dec.e), live).net = dec.net

\* the base64 token gave the result: the summary holds a link too, and
\* neither the summary nor the network was looked at
C15_Witness ==
  /\ pc = "decode"
  /\ dec.stage = Returned
  /\ dec.ran = <<"direct", "urlparam", "b64">>
  /\ dec.url = B64Link
  /\ dec.e.summaryHref # None

RECURSIVE FlattenIds(_)
FlattenIds(ms) ==
  IF ms = <<>> THEN <<>> ELSE Head(ms).ids \o FlattenIds(Tail(ms))

\* C17: when the batching loop is left, the media send calls made for the
\* category cover the chosen list: their fingerprints, in order, are the
\* list's; each call holds between 1 and ALBUM_MAX items; a call of one
\* item is a single photo or video send, a call of more a media group.
C17_BatchPartition ==
  [][(pc = "flush" /\ pc' # "flush") =>
       LET media == Tail(msgs')
       IN /\ FlattenIds(media) = IdsOf(chosen)
          /\ \A k \in 1..Len(media) :
               /\ Len(media[k].ids) \in 1..ALBUM_MAX
               /\ (media[k].kind = "group") <=> (Len(media[k].ids) >= 2)
               /\ media[k].kind \in {"group", "photo", "video"}]_vars

\* send_album_with_ad is left: by its return or by an exception
LeavesSending == pc \in {"flush", "summary"} /\ pc' \notin {"flush", "summary"}

\* C18: when send_album_with_ad is left and a media send of the category
\* succeeded, a summary message was sent that lists every chosen item with
\* its publisher link; when none succeeded, no summary was sent.
C18_SummaryAllAttempted ==
  [][LeavesSending =>
       IF \E k \in 1..Len(msgs') : msgs'[k].result = "ok"
       THEN \E k \in 1..Len(msgs') :
              /\ msgs'[k].kind = "summary"
              /\ msgs'[k].ids = IdsOf(chosen)
              /\ msgs'[k].links = LinksOf(chosen)
       ELSE \A k \in 1..Len(msgs') : msgs'[k].kind # "summary"]_vars

\* the fingerprints of the send calls that succeeded, in order
RECURSIVE DeliveredIds(_)
DeliveredIds(ms) ==
  IF ms = <<>> THEN <<>>
  ELSE (IF Head(ms).result = "ok" THEN Head(ms).ids ELSE <<>>)
         \o DeliveredIds(Tail(ms))

\* C19 as claimed: the summary lists exactly the delivered items.
C19_SummaryDeliveredOnly ==
  [][pc = "summary" =>
       \A k \in 1..Len(msgs') :
         msgs'[k].kind = "summary" => msgs'[k].ids = DeliveredIds(msgs)]_vars

\* C19: when the batching loop has run to its end and a send succeeded, the
\* summary is sent and lists the items of every media send call of the
\* category, those that failed included.
C19_SummaryListsFailedToo ==
  [][(pc = "summary" /\ DeliveredIds(msgs) # <<>>) =>
       \E k \in 1..Len(msgs') :
         /\ msgs'[k].kind = "summary"
         /\ msgs'[k].ids = FlattenIds(Tail(msgs))]_vars

\* a summary was sent after a send call that failed, and lists its items
C19_Witness ==
  \E k, j \in 1..Len(msgs) :
    /\ msgs[k].kind = "summary"
    /\ msgs[j].result = "fail"
    /\ msgs[j].ids # <<>>
    /\ Range(msgs[j].ids) \subseteq Range(msgs[k].ids)

\* C20: the item loop sends nothing, and when it ends with nothing chosen
\* send_album_with_ad returns without any message: no header, no media, no
\* summary, no advertisement.
C20_SilentEmptyCategory ==
  /\ [](pc = "items" => msgs = <<>>)
  /\ [][(pc = "items" /\ idx > Len(items) /\ chosen = <<>>) =>
          (msgs' = <<>> /\ pc' \in {"fetch", "idle"})]_vars

\* in the first pass the first category had an item scraped for and then
\* dropped; send_album_with_ad has returned and no message was sent
C20_Witness ==
  /\ pc = "fetch"
  /\ passNo = 0
  /\ catIdx = 2
  /\ og_fetches > 0
  /\ msgs = <<>>

MediaKinds == {"group", "photo", "video"}

\* the messages of a category are: the header, then media sends only, then
\* at most one summary, then at most one advertisement
OrderedMessages(ms) ==
  /\ ms # <<>> => ms[1].kind = "header"
  /\ \A k \in 2..Len(ms) : ms[k].kind # "header"
  /\ \A k, j \in 1..Len(ms) :
       /\ (ms[k].kind \in {"summary", "ad"} /\ ms[j].kind \in MediaKinds) => j < k
       /\ (ms[k].kind = "ad" /\ ms[j].kind = "summary") => j < k
       /\ (ms[k].kind = ms[j].kind /\ ms[k].kind \in {"summary", "ad"}) => j = k

\* C21: a category with a chosen item gets exactly one header, before any
\* media message; summary and advertisement come only when every group has
\* been attempted, and the advertisement only after a delivered item.
C21_MessageOrder ==
  /\ [](OrderedMessages(msgs))
  /\ []((pc \in {"flush", "summary"}) => (chosen # <<>> /\ msgs # <<>>))
  /\ []((\E k \in 1..Len(msgs) : msgs[k].kind = "ad") =>
          (\E j \in 1..Len(msgs) : msgs[j].kind \in MediaKinds /\ msgs[j].result = "ok"))
  /\ [][(\E k \in 1..Len(msgs') : msgs'[k].kind \in {"summary", "ad"}) =>
          (pc = "summary" /\ FlattenIds(Tail(msgs)) = IdsOf(chosen))]_vars

\* header, a group that failed, a single item that was delivered, the
\* summary and the advertisement
C21_Witness ==
  /\ Len(msgs) = 5
  /\ msgs[2].kind = "group" /\ msgs[2].result = "fail"
  /\ msgs[3].kind \in {"photo", "video"} /\ msgs[3].result = "ok"
  /\ msgs[4].kind = "summary"
  /\ msgs[5].kind = "ad"

\* every cached file the lookup for key can return is a non-empty one
Cached(key, is_video) ==
  /\ Matches(files, key, is_video) # {}
  /\ \A f \in Matches(files, key, is_video) : f.size > 0

\* the media of it is in the cache under the key this pass will ask for
ReusableMedia(it) ==
  LET aid == make_id(it.title, it.link)
  IN \/ it.vid # None /\ Cached(aid \o <<"-vid">>, TRUE)
     \/ /\ it.vid = None /\ og_budget = 0 /\ NativeImg(it) # None
        /\ Cached(aid \o <<"-img">>, FALSE)

UnmarkedAtLoop ==
  /\ pc = "items"
  /\ idx <= Len(items)
  /\ make_id(items[idx].title, items[idx].link) \notin LedgerIds(ledger)

\* C22: an item the feed still carries and the ledger does not is processed
\* again in the next pass: with budget left its page is scraped again, and
\* with its media still cached it is chosen again.
C22_Reconsideration ==
  [][UnmarkedAtLoop =>
       /\ (items[idx].vid = None /\ og_budget > 0) =>
            (og_fetches' > og_fetches \/ og_fetches = MAX_OG_FETCH_PER_CYCLE + 1)
       /\ ReusableMedia(items[idx]) =>
            /\ Len(chosen') = Len(chosen) + 1
            /\ chosen'[Len(chosen')].title = items[idx].title
            /\ chosen'[Len(chosen')].link = items[idx].link]_vars

\* an unmarked item is chosen with a file that an earlier pass cached
C22_Witness ==
  /\ passNo >= 1
  /\ \E i \in 1..Len(chosen) :
       /\ make_id(chosen[i].title, chosen[i].link) \notin LedgerIds(ledger)
       /\ \E f \in files : PathOf(f) = chosen[i].local_path /\ f.mtime < now

KeysOf(list) == [i \in 1..Len(list) |-> <<list[i].title, list[i].link>>]

\* s is t with some elements left out
RECURSIVE IsSubseq(_, _)
IsSubseq(s, t) ==
  IF s = <<>> THEN TRUE
  ELSE IF t = <<>> THEN FALSE
  ELSE IF Head(s) = Head(t) THEN IsSubseq(Tail(s), Tail(t))
  ELSE IsSubseq(s, Tail(t))

IsMedia(m) == m.kind \in MediaKinds

\* C23: categories are taken in the one fixed sequence; the fetched list is
\* free of duplicates and newest first; the chosen items keep the order of
\* the fetched list, and the media sends keep the order of the chosen items.
C23_ProcessingOrder ==
  /\ []((pc \in {"items", "flush", "summary"}) =>
          /\ catIdx \in 1..Len(Categories)
          /\ \A i \in 1..Len(items) : items[i].category = Categories[catIdx]
          /\ \A i, j \in 1..Len(items) :
               i < j => /\ items[i].dt >= items[j].dt
                        /\ KeysOf(items)[i] # KeysOf(items)[j]
          /\ IsSubseq(KeysOf(chosen), KeysOf(SubSeq(items, 1, idx - 1)))
          /\ LET sent == FlattenIds(SelectSeq(msgs, IsMedia))
             IN /\ Len(sent) <= Len(chosen)
                /\ sent = SubSeq(IdsOf(chosen), 1, Len(sent)))
  /\ [][\/ catIdx' = catIdx
        \/ catIdx' = catIdx + 1
        \/ pc = "idle" /\ catIdx' = 1]_vars

\* two entries of different age are chosen, newest first, and have been
\* sent in that order
C23_Witness ==
  /\ pc = "summary"
  /\ Len(chosen) = 2
  /\ chosen[1].dt > chosen[2].dt
  /\ FlattenIds(SelectSeq(msgs, IsMedia)) = IdsOf(chosen)

PassBegins == loop.at # "pass" /\ loop'.at = "pass"

\* a signal leaves the loop where it is, and a pass ends by its own steps
PassNotCutShort ==
  /\ (loop'.stop /\ ~loop.stop) => (loop'.at = loop.at /\ loop'.step = loop.step)
  /\ (loop.at = "pass" /\ loop'.at # "pass") =>
       loop'.at = (IF loop.mode = "realtime" THEN "poll" ELSE "test")

\* C24 as stated: after the signal a pass in progress runs to its end, no
\* pass begins, and the loop ends.
C24_NoPassAfterSignal ==
  /\ [][PassNotCutShort]_vars
  /\ [][loop.stop => ~PassBegins]_vars
  /\ (loop.stop ~> (loop.at = "done"))

\* C24: after the signal a pass in progress runs to its end; a pass begins
\* only if the signal fell between the loop's test of the flag and the call
\* of push_once, so at most one; the loop ends.
C24_Shutdown ==
  /\ [][PassNotCutShort]_vars
  /\ [][(loop.stop /\ PassBegins) =>
          /\ loop.at = (IF loop.mode = "realtime" THEN "news" ELSE "check")
          /\ loop.startedStopped = 0]_vars
  /\ [](loop.startedStopped <= 1)
  /\ (loop.stop ~> (loop.at = "done"))

\* the signal fell after the test: one pass began with the flag set, ran
\* all its steps, and the loop ended at its next test
C24_Witness ==
  /\ loop.at = "done"
  /\ loop.startedStopped = 1

\* C25: a second mark_sent with a fingerprint the ledger holds leaves the
\* ledger as it is, so the first row's title, link, category and time stay;
\* repeating any mark_sent call changes nothing; already_sent answers
\* whether the fingerprint is there and leaves the ledger as it is.
C25_LedgerIdempotent ==
  /\ [](\A r1, r2 \in ledger : r1.id = r2.id => r1 = r2)
  /\ [][LET c == dl'[1]
        IN /\ (c.op = "mark_sent" /\ c.aid \in LedgerIds(ledger)) => ledger' = ledger
           /\ (c.op = "mark_sent" /\ c.aid \notin LedgerIds(ledger)) =>
                ledger' = ledger \cup
                  {[id |-> c.aid, title |-> c.title, link |-> c.link,
                    category |-> c.category, sent_at |-> c.t]}
           /\ c.op = "mark_sent" =>
                \A t \in {c.t, c.t + 1} :
                  mark_sent(ledger', c.aid, c.title, c.link, c.category, t) = ledger'
           /\ c.op = "already_sent" =>
                /\ ledger' = ledger
                /\ c.found = (\E r \in ledger : r.id = c.aid)]_vars

\* mark_sent was called with a fingerprint whose row holds another title,
\* another link and an earlier time
C25_Witness ==
  /\ dl # <<>>
  /\ dl[1].op = "mark_sent"
  /\ \E r \in ledger :
       /\ r.id = dl[1].aid
       /\ r.title # dl[1].title
       /\ r.link # dl[1].link
       /\ r.sent_at < dl[1].t

Purposes == {"-vid", "-img", "-og"}

\* the keys send_album_with_ad can ask the cache for
PipelineKeys == {make_id(e.title, e.link) \o <<p>> : e \in Entries, p \in Purposes}

\* C27: whatever the cache holds, a lookup for a key returns nothing or a
\* file of the asked folder whose name is that key and one extension: no
\* file of another purpose of the fingerprint, none of another fingerprint.
C27_NoMaskingAcrossKeys ==
  \A key \in PipelineKeys, is_video \in BOOLEAN :
    \A l \in Listings(files, key, is_video) :
      \A f \in l :
        /\ f.video = is_video
        /\ Len(f.name) = Len(key) + 1
        /\ SubSeq(f.name, 1, Len(key)) = key

\* the declared image and the scraped image of one fingerprint are both
\* in the cache
C27_Witness ==
  \E f, g \in files :
    /\ ~f.video /\ ~g.video
    /\ f.name[Len(f.name) - 1] = "-img"
    /\ g.name[Len(g.name) - 1] = "-og"
    /\ SubSeq(f.name, 1, Len(f.name) - 2) = SubSeq(g.name, 1, Len(g.name) - 2)

\* C28 as stated: after a download_to_data call that asked the network and
\* returned none, the folder holds no file that a lookup for the key finds.
C28_FailedDownloadLeavesNothing ==
  dl # <<>> =>
    LET c == dl[Len(dl)]
    IN (c.net /\ c.path = None) => Matches(files, c.key, c.video) = {}

IsTmp(f) == f.name[Len(f.name)] = ".part"

\* the whole body of one call of process i, chunk after chunk
WholeBodyOf(i, f) ==
  /\ f.bytes # <<>>
  /\ \A k \in 1..Len(f.bytes) :
       /\ f.bytes[k].owner = i
       /\ f.bytes[k].call = f.bytes[1].call
       /\ f.bytes[k].n = k
       /\ f.bytes[k].of = Len(f.bytes)

\* C29: with two calls on different keys running side by side, a file under
\* a final name of a key holds the whole body of one download of that key
\* and nothing else, and a call returns none or the path of a final file of
\* its own key.
C29_ConcurrentKeysSafe ==
  /\ \A f \in conc.fs : \A i \in Procs :
       (StartsWith(f.name, ConcKey(i)) /\ ~IsTmp(f)) => WholeBodyOf(i, f)
  /\ \A i \in Procs :
       conc.p[i].result # None =>
         \E f \in conc.fs :
           /\ conc.p[i].result = PathOf(f)
           /\ StartsWith(f.name, ConcKey(i))
           /\ ~IsTmp(f)
           /\ WholeBodyOf(i, f)

\* both calls are in their chunk loops, each with one chunk of two written
\* to its own temporary file
C29_Witness ==
  \A i \in Procs :
    /\ conc.p[i].at = "write"
    /\ conc.p[i].written = 1
    /\ conc.p[i].of = MaxChunks
    /\ \E f \in conc.fs :
         /\ f.name = TmpName(ConcKey(i))
         /\ Len(f.bytes) = 1
         /\ f.bytes[1].owner = i

\* C30 as stated: a link is in posted_news only if a category message that
\* holds it was confirmed; the links of a message that was not confirmed are
\* not marked.
C30_PostedAfterDelivery ==
  /\ nb.posted \subseteq nb.delivered
  /\ \A k \in 1..Len(nb.msgs) :
       (nb.msgs[k].cat # "" /\ nb.msgs[k].result # "ok") =>
         \A i \in 1..Len(nb.msgs[k].links) :
           <<nb.msgs[k].cat, nb.msgs[k].links[i]>> \notin nb.posted

\* C35 as stated: once mark_posted(chat, category, link) has run,
\* already_posted(chat, category, link) is true, also when a link with the
\* same first 255 characters was marked before; so the filter of
\* push_news_once keeps the link out of every later pass.
C35_LinkLedgerRoundTrip ==
  \A r \in nb.marked : already_posted(nb.posted, r[1], r[2])

\* C31 as stated: run_digest starts a pass only when the clock has reached
\* the digest time.
C31_DigestOnlyAtTime ==
  [][(loop.mode = "digest" /\ PassBegins) => loop.toTarget = 0]_vars

\* C32 as stated: a path that download_to_data returns never names the
\* temporary file <key>.part.
C32_NeverReturnsPartFile ==
  \A i \in Procs :
    conc.p[i].result # None =>
      conc.p[i].result[Len(conc.p[i].result)] # ".part"

\* C33: whatever MEDIA_ONLY says, every chosen item names a file that is in
\* the cache folder its is_video flag tells, and every media send is made of
\* chosen items.
C33_ChosenHaveLocalFile ==
  /\ \A i \in 1..Len(chosen) :
       /\ chosen[i].local_path # None
       /\ \E f \in files : /\ PathOf(f) = chosen[i].local_path
                           /\ f.video = chosen[i].is_video
  /\ pc \in {"flush", "summary"} =>
       \A k \in 1..Len(msgs) :
         IsMedia(msgs[k]) => Range(msgs[k].ids) \subseteq Range(IdsOf(chosen))

\* with MEDIA_ONLY off, of two fetched items that the ledger does not hold
\* one was dropped for want of a file and the other was chosen and sent
C33_Witness ==
  /\ ~MEDIA_ONLY
  /\ pc = "summary"
  /\ Len(items) = 2
  /\ Len(chosen) = 1
  /\ \E k \in 1..Len(msgs) : IsMedia(msgs[k])
  /\ \E i \in 1..Len(items) :
       /\ KeysOf(items)[i] # KeysOf(chosen)[1]
       /\ make_id(items[i].title, items[i].link) \notin LedgerIds(ledger)
       /\ make_id(items[i].title, items[i].link) #
            make_id(chosen[1].title, chosen[1].link)

\* C34 as stated: the item loop skips an item as already sent only if the
\* ledger holds a row of that very title and link (entries with different
\* pairs have different ledger keys).
C34_KeySeparatesEntries ==
  (pc = "items" /\ idx <= Len(items)) =>
    (already_sent(ledger, make_id(items[idx].title, items[idx].link)) =>
       \E r \in ledger : r.title = items[idx].title /\ r.link = items[idx].link)

\* C36 as stated: for each inviter in a chat, the net of the invite point
\* changes is INVITE_REWARD_POINTS times the number of invites rows that name
\* the inviter, and one join or leave credits or debits at most once however
\* it is delivered.
C36_InviteAccounting ==
  /\ \A c \in Chats, u \in Users :
       nb.logsum[c][u] =
         INVITE_REWARD_POINTS * Cardinality({x \in Users : nb.invites[c][x] = u})
  /\ nb.credits <= 1
  /\ nb.debits <= 1

\* a join was credited, the invitee left and the leave, handled in both
\* forms, was debited once and removed the row
C36_Witness ==
  /\ nb.ev.kind = "leave"
  /\ nb.pending = {}
  /\ nb.handled = 2
  /\ nb.debits = 1
  /\ nb.events = 2
  /\ \A c \in Chats, u \in Users : nb.invites[c][u] = NoId /\ nb.points[c][u] = 0

\* C37 as stated: a redemption, by command or by button, happens only with
\* at least REDEEM_MIN_POINTS points, deducts a multiple of REDEEM_RATE that
\* is not larger than the balance, and leaves a balance that is not negative;
\* a refused redemption leaves the balance alone.
C37_RedeemNeverOverdraws ==
  nb.last.op \in {"command", "button"} =>
    IF nb.last.done
    THEN /\ nb.last.before >= REDEEM_MIN_POINTS
         /\ nb.last.deduct_pts >= 0
         /\ nb.last.deduct_pts % REDEEM_RATE = 0
         /\ nb.last.deduct_pts <= nb.last.before
         /\ nb.points = nb.last.before - nb.last.deduct_pts
         /\ nb.points >= 0
    ELSE nb.points = nb.last.before

\* /redeem with a number below the maximum took part of the balance
C37_Witness ==
  /\ nb.last.op = "command"
  /\ nb.last.done
  /\ nb.last.deduct_pts > 0
  /\ nb.points >= REDEEM_RATE

\* C38 as stated: for every chat and day the daily report is sent at most
\* once and the top-talker rewards are given at most once, however often
\* scheduler_step runs in the configured minute and whatever raises inside
\* the report.
C38_DailyAtMostOnce ==
  \A rk \in ReportKeys : nb.reports[rk] <= 1 /\ nb.rewards[rk] <= 1

\* scheduler_step ran three times in the minute of one day after a reward
\* had raised for chat 1, whose report was sent once
C38_Witness ==
  /\ nb.phase = "during"
  /\ nb.day = 1
  /\ nb.steps = 3
  /\ nb.reports[<<1, 0>>] = 1
  /\ nb.rewards[<<1, 0>>] = 1
  /\ nb.reports[<<2, 0>>] = 0
  /\ <<2, 0>> \in nb.done

\* C39 as stated: over any sequence of polls the stored last_update_id never
\* decreases, and every update is dispatched to a handler at most once, also
\* when its handler raises.
C39_UpdatesAtMostOnce ==
  /\ [](\A id \in UpdateIds : nb.dispatched[id] <= 1)
  /\ [][nb'.last_update_id >= nb.last_update_id]_vars

\* a poll in which update 1 was handled and the handler of update 2
\* raised, with update 3 in the same answer and left for the next poll
C39_Witness ==
  /\ nb.raised
  /\ nb.last_update_id = 2
  /\ nb.dispatched[1] = 1
  /\ nb.dispatched[2] = 1
  /\ nb.dispatched[3] = 0
  /\ 3 \in nb.pending

====
